---- MODULE Spec2Model ----
(***************************************************************************)
(* Event/worker scheduler of systemd-udevd (src/udev/udevd.c).             *)
(*                                                                         *)
(* The supervisor is a single-threaded event loop: every callback          *)
(* (on_uevent, on_worker, on_sigchld, on_ctrl_msg, the timers, on_post)    *)
(* runs to completion, so each one is one action.  The worker children     *)
(* run concurrently; each of their observable steps is an action too.      *)
(*                                                                         *)
(* A callback meets several environment outcomes while it runs (a send to  *)
(* a worker fails, fork fails, an allocation fails).  The operators that   *)
(* model the code therefore map a world (the record of all variables) to   *)
(* the SET of worlds the code can leave behind, and an action picks one.   *)
(***************************************************************************)
EXTENDS Integers, Sequences, FiniteSets, TLC

VARIABLES
    events,             \* manager->events: the queue, in insertion order
    workers,            \* manager->workers: pid -> struct worker
    children_max,       \* arg_children_max
    stop_exec_queue,    \* manager->stop_exec_queue
    exit,               \* manager->exit
    rules,              \* manager->rules # NULL
    kill_workers_event, \* manager->kill_workers_event is enabled
    exit_timeout,       \* the 30 s watchdog armed by manager_exit
    ctrl_event,         \* manager->ctrl_event / manager->ctrl are open
    uevent_event,       \* manager->uevent_event / manager->monitor are open
    inotify_event,      \* manager->inotify_event / fd_inotify are open
    pid,                \* manager->pid (0 until the first insert)
    queue_marker,       \* the file /run/udev/queue exists
    loop,               \* "running", or the exit code of sd_event_loop
    seqnum,             \* the kernel's uevent sequence number (last one used)
    proc,               \* the forked children: pid -> process state
    sock,               \* datagrams in the worker_watch socket pair
    db_deleted,         \* the events whose database entry the last step deleted
    monitor_out,        \* the devices the last step sent on the main monitor
    properties,         \* manager->properties: key -> {} (NULL) or { value }
    netlink,            \* uevents in the netlink socket, not yet read
    ctrl_in,            \* control messages in the control socket, not yet read
    pending,            \* the sources the event loop found ready when it polled
    fork_bound,         \* the number of children that can be forked in the run
    wk,                 \* one worker child, step by step (worker_spawn, case 0)
    ctrl_last,          \* the control message handled last, if nothing else
                        \* has been handled since, and how often in a row
    host,               \* what main has found out about the machine
    listen,             \* the descriptors main was handed and what
                        \* listen_fds made of them
    scan,               \* what is_devpath_busy returned for the head of a
                        \* given queue
    faults              \* the kinds of failure the environment may produce

vars == << events, workers, children_max, stop_exec_queue, exit, rules,
           kill_workers_event, exit_timeout, ctrl_event, uevent_event,
           inotify_event, pid, queue_marker, loop, seqnum, proc, sock,
           db_deleted, monitor_out, properties, netlink, ctrl_in, pending,
           fork_bound, wk, ctrl_last, host, listen, scan, faults >>

---------------------------------------------------------------------------
(* Bounds of the model *)

\* number of uevents the kernel sends
MaxEvents == 2
\* number of uevents the kernel sends where the queue's ordering is checked
MaxOrderEvents == 3
\* number of children worker_spawn may fork altogether
MaxForks == 2
\* largest value of children_max (command line or set-children-max)
MaxChildren == 2
\* number of control messages that wait in the control socket at a time
MaxCtrlPending == 2
\* number of datagrams in the reply socket when a stray one is added
MaxReplies == 2

\* the CPUs of the machines main is run on
MaxCpus == 8
\* largest seqnum and delaying_seqnum of the queues is_devpath_busy is
\* given
MaxSeqnum == 3
\* number of descriptors the service manager hands to main
MaxFds == 3

---------------------------------------------------------------------------
(* Devices *)

\* the pid of the supervisor, getpid_cached() in the main process
MainPid == 2

\* a NULL devpath_old
NoPath == << >>

\* dev_t as <<major, minor>>
major(devnum) == devnum[1]

NoDev == << 0, 0 >>

Device(path, old, devnum, ifindex, block) ==
    [ devpath |-> path, devpath_old |-> old, devnum |-> devnum,
      ifindex |-> ifindex, is_block |-> block ]

\* two unrelated devices: a disk and a network interface
CoreDevices ==
    { Device(<< "/", "a" >>, NoPath, << 8, 0 >>, 0, TRUE),
      Device(<< "/", "n" >>, NoPath, NoDev, 3, FALSE) }

\* the uevents of the scenarios: a disk, a device, a device renamed from
\* the name of that one, and two more devices unrelated to all of these
ScenarioDevices ==
    { Device(<< "/", "s" >>, NoPath,         << 8, 0 >>, 0, TRUE),
      Device(<< "/", "x" >>, NoPath,         NoDev,      0, FALSE),
      Device(<< "/", "y" >>, << "/", "x" >>, NoDev,      0, FALSE),
      Device(<< "/", "p" >>, NoPath,         NoDev,      0, FALSE),
      Device(<< "/", "q" >>, NoPath,         NoDev,      0, FALSE) }

\* the uevents the kernel may send: a disk, its partition, a device whose
\* name merely starts with the disk's name, a network interface, a device
\* renamed to a name the interface had, and another interface that took
\* over the sysfs path of the first
Devices ==
    { Device(<< "/", "a" >>,           NoPath, << 8, 0 >>, 0, TRUE),
      Device(<< "/", "a", "/", "b" >>, NoPath, << 8, 1 >>, 0, TRUE),
      Device(<< "/", "a", "1" >>,      NoPath, NoDev,      0, FALSE),
      Device(<< "/", "n" >>,           NoPath, NoDev,      3, FALSE),
      Device(<< "/", "m" >>,    << "/", "n" >>, NoDev,     0, FALSE),
      Device(<< "/", "n" >>,           NoPath, NoDev,      4, FALSE) }

---------------------------------------------------------------------------
(* The world: all variables as one record.  db_deleted and monitor_out
   are what one step does to the device database and the main monitor:
   every step starts with both empty. *)

\* main has not looked at the machine yet
NoHost == [ pc |-> "start", ncpu |-> 0, affinity |-> FALSE, mem_mib |-> 0 ]

\* is_devpath_busy has not been called
NoScan == [ done |-> FALSE, busy |-> FALSE ]

\* main has not called listen_fds yet
NoFds == [ pc |-> "start", fds |-> << >>, r |-> 0, fd_ctrl |-> -1,
           fd_uevent |-> -1 ]

\* no control message has just been handled
NoMsg == [ t |-> "none", n |-> 0, str |-> << >>, times |-> 0 ]

World ==
    [ events |-> events, workers |-> workers, children_max |-> children_max,
      stop_exec_queue |-> stop_exec_queue, exit |-> exit, rules |-> rules,
      kill_workers_event |-> kill_workers_event,
      exit_timeout |-> exit_timeout, ctrl_event |-> ctrl_event,
      uevent_event |-> uevent_event, inotify_event |-> inotify_event,
      pid |-> pid, queue_marker |-> queue_marker, loop |-> loop,
      seqnum |-> seqnum, proc |-> proc, sock |-> sock,
      db_deleted |-> {}, monitor_out |-> {}, properties |-> properties,
      netlink |-> netlink,
      ctrl_in |-> ctrl_in, pending |-> pending, fork_bound |-> fork_bound,
      wk |-> wk, ctrl_last |-> ctrl_last, host |-> host, listen |-> listen,
      scan |-> scan,
      faults |-> faults ]

Handled(w) ==
    /\ events' = w.events
    /\ workers' = w.workers
    /\ children_max' = w.children_max
    /\ stop_exec_queue' = w.stop_exec_queue
    /\ exit' = w.exit
    /\ rules' = w.rules
    /\ kill_workers_event' = w.kill_workers_event
    /\ exit_timeout' = w.exit_timeout
    /\ ctrl_event' = w.ctrl_event
    /\ uevent_event' = w.uevent_event
    /\ inotify_event' = w.inotify_event
    /\ pid' = w.pid
    /\ queue_marker' = w.queue_marker
    /\ loop' = w.loop
    /\ seqnum' = w.seqnum
    /\ proc' = w.proc
    /\ sock' = w.sock
    /\ db_deleted' = w.db_deleted
    /\ monitor_out' = w.monitor_out
    /\ properties' = w.properties
    /\ netlink' = w.netlink
    /\ ctrl_in' = w.ctrl_in
    /\ pending' = w.pending
    /\ fork_bound' = w.fork_bound
    /\ wk' = w.wk
    /\ ctrl_last' = w.ctrl_last
    /\ host' = w.host
    /\ listen' = w.listen
    /\ scan' = w.scan
    /\ faults' = w.faults

\* a step other than the handling of a control message
Becomes(w) == Handled([w EXCEPT !.ctrl_last = NoMsg])

Range(seq) == { seq[i] : i \in 1..Len(seq) }

\* the index in the queue of the event with sequence number s (0: none)
IndexOf(evs, s) ==
    IF \E i \in 1..Len(evs) : evs[i].seqnum = s
    THEN CHOOSE i \in 1..Len(evs) : evs[i].seqnum = s
    ELSE 0

\* LIST_REMOVE
RemoveAt(evs, i) == SubSeq(evs, 1, i - 1) \o SubSeq(evs, i + 1, Len(evs))


---------------------------------------------------------------------------
(* Signals sent to the children *)

Alive(p) == p.pc \in { "busy", "wait" }

\* kill(pid, sig): a signal to a process that has exited is lost; every
\* SIGKILL sent to a child is counted in its kills
Signal(w, p, sig) ==
    IF p \notin DOMAIN w.proc THEN w
    ELSE LET w1 == IF sig = "kill"
                   THEN [w EXCEPT !.proc[p].kills = @ + 1]
                   ELSE w
         IN  IF Alive(w.proc[p])
             THEN [w1 EXCEPT !.proc[p].sig = IF @ = "kill" THEN "kill" ELSE sig]
             ELSE w1

---------------------------------------------------------------------------
(* Event and worker records *)

\* event_free that unlinks /run/udev/queue whichever process runs it
event_free_any_pid(w, s, self) ==
    LET i == IndexOf(w.events, s) IN
    IF i = 0 THEN w
    ELSE LET e == w.events[i]
             evs == RemoveAt(w.events, i)
         IN  [w EXCEPT
                 !.events = evs,
                 !.workers = IF e.worker \in DOMAIN @
                             THEN [@ EXCEPT ![e.worker].event = 0]
                             ELSE @,
                 !.queue_marker = IF evs = << >> THEN FALSE ELSE @]

\* event_free(event) run by process self; s = 0 is the NULL event
\* event_free that leaves the worker's reference to the event
event_free_keeps_backref(w, s, self) ==
    LET i == IndexOf(w.events, s) IN
    IF i = 0 THEN w
    ELSE LET evs == RemoveAt(w.events, i)
         IN  [w EXCEPT
                 !.events = evs,
                 !.queue_marker = IF evs = << >> /\ w.pid = self
                                  THEN FALSE ELSE @]

event_free(w, s, self) ==
    LET i == IndexOf(w.events, s) IN
    IF i = 0 THEN w
    ELSE LET e == w.events[i]
             evs == RemoveAt(w.events, i)
         IN  [w EXCEPT
                 !.events = evs,
                 !.workers = IF e.worker \in DOMAIN @
                             THEN [@ EXCEPT ![e.worker].event = 0]
                             ELSE @,
                 !.queue_marker = IF evs = << >> /\ w.pid = self
                                  THEN FALSE ELSE @]

\* worker_free(worker) run by process self
worker_free(w, p, self) ==
    LET ev == w.workers[p].event
        w1 == [w EXCEPT !.workers = [q \in DOMAIN @ \ {p} |-> @[q]]]
    IN  event_free(w1, ev, self)

RECURSIVE manager_workers_free(_, _)
manager_workers_free(w, self) ==
    IF DOMAIN w.workers = {} THEN w
    ELSE LET p == CHOOSE q \in DOMAIN w.workers : TRUE
         IN  manager_workers_free(worker_free(w, p, self), self)

RECURSIVE cleanup_from(_, _, _, _)
cleanup_from(w, i, match_type, self) ==
    IF i > Len(w.events) THEN w
    ELSE IF match_type # "UNDEF" /\ match_type # w.events[i].state
         THEN cleanup_from(w, i + 1, match_type, self)
         ELSE cleanup_from(event_free(w, w.events[i].seqnum, self), i,
                           match_type, self)

event_queue_cleanup(w, match_type, self) == cleanup_from(w, 1, match_type, self)

\* what the forked child does to /run/udev/queue when it frees its copy of
\* the manager's workers and events (worker_spawn, case 0)
child_cleanup(w, child) ==
    event_queue_cleanup(manager_workers_free(w, child), "UNDEF", child).queue_marker

\* worker_new: the pool entry of a fresh worker (new0: state UNDEF, no event)
worker_new(w, p) ==
    [w EXCEPT !.workers = [q \in DOMAIN @ \cup {p} |->
                             IF q = p THEN [state |-> "UNDEF", event |-> 0]
                             ELSE @[q]]]

\* the two sd_event_add_time calls of worker_attach_event: each returns a
\* source, or fails (the result is ignored) and leaves the handle NULL
TimerOutcomes(w) ==
    IF "timer" \in w.faults THEN { "armed", "none" } ELSE { "armed" }

\* worker_attach_event that leaves the event's state as it was
worker_attach_event_no_state(w, p, i) ==
    { [w EXCEPT !.workers[p].state = "RUNNING",
                !.workers[p].event = w.events[i].seqnum,
                !.events[i].worker = p,
                !.events[i].timeout_warning = tw,
                !.events[i].timeout = tk] :
        tw \in TimerOutcomes(w), tk \in TimerOutcomes(w) }

\* worker_attach_event that arms no timer
worker_attach_event_no_timers(w, p, i) ==
    { [w EXCEPT !.workers[p].state = "RUNNING",
                !.workers[p].event = w.events[i].seqnum,
                !.events[i].state = "RUNNING",
                !.events[i].worker = p] }

\* worker_attach_event(worker p, event at index i)
worker_attach_event(w, p, i) ==
    { [w EXCEPT !.workers[p].state = "RUNNING",
                !.workers[p].event = w.events[i].seqnum,
                !.events[i].state = "RUNNING",
                !.events[i].worker = p,
                !.events[i].timeout_warning = tw,
                !.events[i].timeout = tk] :
        tw \in TimerOutcomes(w), tk \in TimerOutcomes(w) }

\* manager_kill_workers that takes the events of the workers back into
\* the QUEUED state
manager_kill_workers_requeues(w) ==
    LET victims == { p \in DOMAIN w.workers : w.workers[p].state # "KILLED" }
        w1 == [w EXCEPT !.workers = [p \in DOMAIN @ |->
                                       [@[p] EXCEPT !.state = "KILLED"]],
                        !.events = [i \in DOMAIN @ |->
                                      [@[i] EXCEPT !.state = "QUEUED"]]]
    IN  [w1 EXCEPT !.proc = [p \in DOMAIN @ |->
                               IF p \in victims /\ Alive(@[p]) /\ @[p].sig # "kill"
                               THEN [@[p] EXCEPT !.sig = "term"]
                               ELSE @[p]]]

\* manager_kill_workers
manager_kill_workers(w) ==
    LET victims == { p \in DOMAIN w.workers : w.workers[p].state # "KILLED" }
        w1 == [w EXCEPT !.workers = [p \in DOMAIN @ |->
                                       [@[p] EXCEPT !.state = "KILLED"]]]
    IN  [w1 EXCEPT !.proc = [p \in DOMAIN @ |->
                               IF p \in victims /\ Alive(@[p]) /\ @[p].sig # "kill"
                               THEN [@[p] EXCEPT !.sig = "term"]
                               ELSE @[p]]]

---------------------------------------------------------------------------
(* is_devpath_busy *)

\* devpath[i] of the C string: 0-based, the terminating NUL at Len
CharAt(path, i) == IF i < Len(path) THEN path[i + 1] ELSE "NUL"

\* memcmp(a, b, n) == 0
SamePrefix(a, b, n) == \A k \in 1..n : a[k] = b[k]

MIN(a, b) == IF a < b THEN a ELSE b

MAX(a, b) == IF a > b THEN a ELSE b

\* busy_step without the test of the network interface index
busy_step_no_ifindex(e, l) ==
    LET common == MIN(Len(l.devpath), Len(e.devpath)) IN
    IF l.seqnum < e.delaying_seqnum THEN "continue"
    ELSE IF l.seqnum = e.delaying_seqnum THEN "busy"
    ELSE IF l.seqnum >= e.seqnum THEN "break"
    ELSE IF major(e.devnum) # 0 /\ e.devnum = l.devnum /\ e.is_block = l.is_block
         THEN "busy"
    ELSE IF e.devpath_old # NoPath /\ l.devpath = e.devpath_old THEN "delay"
    ELSE IF ~SamePrefix(l.devpath, e.devpath, common) THEN "continue"
    ELSE IF Len(l.devpath) = Len(e.devpath)
         THEN IF major(e.devnum) # 0 \/ e.ifindex > 0 THEN "continue"
              ELSE "delay"
    ELSE IF CharAt(e.devpath, common) = "/" THEN "delay"
    ELSE IF CharAt(l.devpath, common) = "/" THEN "delay"
    ELSE "continue"

\* busy_step that records the blocker of a device number match as well
busy_step_records_devnum(e, l) ==
    LET common == MIN(Len(l.devpath), Len(e.devpath)) IN
    IF l.seqnum < e.delaying_seqnum THEN "continue"
    ELSE IF l.seqnum = e.delaying_seqnum THEN "busy"
    ELSE IF l.seqnum >= e.seqnum THEN "break"
    ELSE IF major(e.devnum) # 0 /\ e.devnum = l.devnum /\ e.is_block = l.is_block
         THEN "delay"
    ELSE IF e.ifindex > 0 /\ e.ifindex = l.ifindex THEN "busy"
    ELSE IF e.devpath_old # NoPath /\ l.devpath = e.devpath_old THEN "delay"
    ELSE IF ~SamePrefix(l.devpath, e.devpath, common) THEN "continue"
    ELSE IF Len(l.devpath) = Len(e.devpath)
         THEN IF major(e.devnum) # 0 \/ e.ifindex > 0 THEN "continue"
              ELSE "delay"
    ELSE IF CharAt(e.devpath, common) = "/" THEN "delay"
    ELSE IF CharAt(l.devpath, common) = "/" THEN "delay"
    ELSE "continue"

\* busy_step without the test of the old name
busy_step_no_rename(e, l) ==
    LET common == MIN(Len(l.devpath), Len(e.devpath)) IN
    IF l.seqnum < e.delaying_seqnum THEN "continue"
    ELSE IF l.seqnum = e.delaying_seqnum THEN "busy"
    ELSE IF l.seqnum >= e.seqnum THEN "break"
    ELSE IF major(e.devnum) # 0 /\ e.devnum = l.devnum /\ e.is_block = l.is_block
         THEN "busy"
    ELSE IF e.ifindex > 0 /\ e.ifindex = l.ifindex THEN "busy"
    ELSE IF ~SamePrefix(l.devpath, e.devpath, common) THEN "continue"
    ELSE IF Len(l.devpath) = Len(e.devpath)
         THEN IF major(e.devnum) # 0 \/ e.ifindex > 0 THEN "continue"
              ELSE "delay"
    ELSE IF CharAt(e.devpath, common) = "/" THEN "delay"
    ELSE IF CharAt(l.devpath, common) = "/" THEN "delay"
    ELSE "continue"

\* busy_step that takes a devpath which merely starts with the other one
\* for a child or a parent
busy_step_any_prefix(e, l) ==
    LET common == MIN(Len(l.devpath), Len(e.devpath)) IN
    IF l.seqnum < e.delaying_seqnum THEN "continue"
    ELSE IF l.seqnum = e.delaying_seqnum THEN "busy"
    ELSE IF l.seqnum >= e.seqnum THEN "break"
    ELSE IF major(e.devnum) # 0 /\ e.devnum = l.devnum /\ e.is_block = l.is_block
         THEN "busy"
    ELSE IF e.ifindex > 0 /\ e.ifindex = l.ifindex THEN "busy"
    ELSE IF e.devpath_old # NoPath /\ l.devpath = e.devpath_old THEN "delay"
    ELSE IF ~SamePrefix(l.devpath, e.devpath, common) THEN "continue"
    ELSE IF Len(l.devpath) = Len(e.devpath)
         THEN IF major(e.devnum) # 0 \/ e.ifindex > 0 THEN "continue"
              ELSE "delay"
    ELSE "delay"

\* busy_step that skips the cached blocker together with the events before it
busy_step_skips_cached(e, l) ==
    LET common == MIN(Len(l.devpath), Len(e.devpath)) IN
    IF l.seqnum <= e.delaying_seqnum THEN "continue"
    ELSE IF l.seqnum >= e.seqnum THEN "break"
    ELSE IF major(e.devnum) # 0 /\ e.devnum = l.devnum /\ e.is_block = l.is_block
         THEN "busy"
    ELSE IF e.ifindex > 0 /\ e.ifindex = l.ifindex THEN "busy"
    ELSE IF e.devpath_old # NoPath /\ l.devpath = e.devpath_old THEN "delay"
    ELSE IF ~SamePrefix(l.devpath, e.devpath, common) THEN "continue"
    ELSE IF Len(l.devpath) = Len(e.devpath)
         THEN IF major(e.devnum) # 0 \/ e.ifindex > 0 THEN "continue"
              ELSE "delay"
    ELSE IF CharAt(e.devpath, common) = "/" THEN "delay"
    ELSE IF CharAt(l.devpath, common) = "/" THEN "delay"
    ELSE "continue"

\* One iteration of the loop of is_devpath_busy: event e against the queue
\* entry l.  "continue": next entry; "break": leave the loop (not busy);
\* "busy": return true; "delay": set e.delaying_seqnum to l.seqnum and
\* return true.
busy_step(e, l) ==
    LET common == MIN(Len(l.devpath), Len(e.devpath)) IN
    IF l.seqnum < e.delaying_seqnum THEN "continue"
    ELSE IF l.seqnum = e.delaying_seqnum THEN "busy"
    ELSE IF l.seqnum >= e.seqnum THEN "break"
    ELSE IF major(e.devnum) # 0 /\ e.devnum = l.devnum /\ e.is_block = l.is_block
         THEN "busy"
    ELSE IF e.ifindex > 0 /\ e.ifindex = l.ifindex THEN "busy"
    ELSE IF e.devpath_old # NoPath /\ l.devpath = e.devpath_old THEN "delay"
    ELSE IF ~SamePrefix(l.devpath, e.devpath, common) THEN "continue"
    ELSE IF Len(l.devpath) = Len(e.devpath)
         THEN IF major(e.devnum) # 0 \/ e.ifindex > 0 THEN "continue"
              ELSE "delay"
    ELSE IF CharAt(e.devpath, common) = "/" THEN "delay"
    ELSE IF CharAt(l.devpath, common) = "/" THEN "delay"
    ELSE "continue"

RECURSIVE busy_from(_, _, _)

busy_from(evs, e, j) ==
    IF j > Len(evs)
    THEN [busy |-> FALSE, delaying_seqnum |-> e.delaying_seqnum]
    ELSE LET r == busy_step(e, evs[j]) IN
         CASE r = "continue" -> busy_from(evs, e, j + 1)
           [] r = "break" -> [busy |-> FALSE, delaying_seqnum |-> e.delaying_seqnum]
           [] r = "busy" -> [busy |-> TRUE, delaying_seqnum |-> e.delaying_seqnum]
           [] r = "delay" -> [busy |-> TRUE, delaying_seqnum |-> evs[j].seqnum]

\* is_devpath_busy that forgets the cached blocker when it finds none
is_devpath_busy_reset(evs, e) ==
    LET r == busy_from(evs, e, 1) IN
    IF r.busy THEN r ELSE [busy |-> FALSE, delaying_seqnum |-> 0]

\* is_devpath_busy(manager, event): the result, and the delaying_seqnum it
\* leaves in the event
is_devpath_busy(evs, e) == busy_from(evs, e, 1)

---------------------------------------------------------------------------
(* event_run and worker_spawn *)

\* the pid fork() returns in the parent
NewPid(w) == MainPid + Cardinality(DOMAIN w.proc) + 1

\* the child after fork: it handles the device it was forked for
Forked(w, p, marker) ==
    [w EXCEPT !.proc = [q \in DOMAIN @ \cup {p} |->
                          IF q = p
                          THEN [pc |-> "busy", sig |-> "none", inbox |-> FALSE,
                                status |-> "none", kills |-> 0]
                          ELSE @[q]],
              !.queue_marker = marker]

\* worker_spawn that frees the event when the fork fails
worker_spawn_drops(w, i) ==
    LET p == NewPid(w)
        child == Forked(w, p, child_cleanup(w, p))
        can_fork == Cardinality(DOMAIN w.proc) < w.fork_bound
    IN  (IF "fork" \in w.faults
         THEN { event_free(w, w.events[i].seqnum, MainPid) }
         ELSE {})
        \cup (IF "worker_new" \in w.faults /\ can_fork
              THEN { child }
              ELSE {})
        \cup (IF can_fork
              THEN worker_attach_event(worker_new(child, p), p, i)
              ELSE {})

\* worker_spawn(manager, event at index i): fork fails (or no monitor could
\* be made for the worker); fork succeeds and worker_new fails; both succeed.
\* No more than fork_bound children are forked in a run: a run in which fork
\* may not fail ends where it would need one more.
worker_spawn(w, i) ==
    LET p == NewPid(w)
        child == Forked(w, p, child_cleanup(w, p))
        can_fork == Cardinality(DOMAIN w.proc) < w.fork_bound
    IN  (IF "fork" \in w.faults
         THEN { [w EXCEPT !.events[i].state = "QUEUED"] }
         ELSE {})
        \cup (IF "worker_new" \in w.faults /\ can_fork
              THEN { child }
              ELSE {})
        \cup (IF can_fork
              THEN worker_attach_event(worker_new(child, p), p, i)
              ELSE {})

\* udev_monitor_send_device to worker p: the datagram reaches a worker that
\* waits for it, or the send fails (it always fails when p has exited)
SendOutcomes(w, p) ==
    IF ~Alive(w.proc[p]) THEN { "failed" }
    ELSE IF "send" \in w.faults THEN { "sent", "failed" }
    ELSE { "sent" }

\* event_run without a limit on the pool
children_max_unlimited(w) == FALSE

\* the limit of event_run tested with > in place of >=
children_max_exceeded(w) == Cardinality(DOMAIN w.workers) > w.children_max

\* hashmap_size(manager->workers) >= arg_children_max
children_max_reached(w) == Cardinality(DOMAIN w.workers) >= w.children_max

\* the loop of event_run that leaves a worker alone when the send to it
\* fails
RECURSIVE event_run_scan_spares(_, _, _)
event_run_scan_spares(w, i, todo) ==
    LET idle == { p \in todo : w.workers[p].state = "IDLE" } IN
    IF idle = {}
    THEN IF children_max_reached(w)
         THEN { w }
         ELSE worker_spawn(w, i)
    ELSE UNION { UNION {
            IF o = "sent"
            THEN worker_attach_event([w EXCEPT !.proc[p].inbox = TRUE], p, i)
            ELSE event_run_scan_spares(w, i, todo \ {p})
            : o \in SendOutcomes(w, p) } : p \in idle }

\* the loop of event_run over the workers not yet visited (the hashmap's
\* iteration order is any order)
RECURSIVE event_run_scan(_, _, _)
event_run_scan(w, i, todo) ==
    LET idle == { p \in todo : w.workers[p].state = "IDLE" } IN
    IF idle = {}
    THEN IF children_max_reached(w)
         THEN { w }
         ELSE worker_spawn(w, i)
    ELSE UNION { UNION {
            IF o = "sent"
            THEN worker_attach_event([w EXCEPT !.proc[p].inbox = TRUE], p, i)
            ELSE event_run_scan(
                     [Signal(w, p, "kill") EXCEPT !.workers[p].state = "KILLED"],
                     i, todo \ {p})
            : o \in SendOutcomes(w, p) } : p \in idle }

\* event_run(manager, event at index i)
event_run(w, i) == event_run_scan(w, i, DOMAIN w.workers)

---------------------------------------------------------------------------
(* Shutdown, reload and the dispatch scan *)

\* manager_exit that leaves the uevent source open
manager_exit_keeps_ingress(w) ==
    LET w1 == [w EXCEPT !.exit = TRUE,
                        !.ctrl_event = FALSE,
                        !.inotify_event = FALSE]
        w2 == manager_kill_workers(event_queue_cleanup(w1, "QUEUED", MainPid))
    IN  { [w2 EXCEPT !.exit_timeout = @ \/ t = "armed"] : t \in TimerOutcomes(w) }

\* manager_exit; the sd_event_add_time of the 30 s watchdog may fail
manager_exit(w) ==
    LET w1 == [w EXCEPT !.exit = TRUE,
                        !.ctrl_event = FALSE,
                        !.inotify_event = FALSE,
                        !.uevent_event = FALSE]
        w2 == manager_kill_workers(event_queue_cleanup(w1, "QUEUED", MainPid))
    IN  { [w2 EXCEPT !.exit_timeout = @ \/ t = "armed"] : t \in TimerOutcomes(w) }

\* manager_reload that discards the queued events as manager_exit does
manager_reload_discards(w) ==
    [manager_kill_workers(event_queue_cleanup(w, "QUEUED", MainPid))
        EXCEPT !.rules = FALSE]

\* manager_reload
manager_reload(w) == [manager_kill_workers(w) EXCEPT !.rules = FALSE]

\* the loop of event_queue_start from the queue entry at index i on
RECURSIVE start_from(_, _)
start_from(w, i) ==
    IF i > Len(w.events) THEN { w }
    ELSE IF w.events[i].state # "QUEUED" THEN start_from(w, i + 1)
    ELSE LET r == is_devpath_busy(w.events, w.events[i])
             w1 == [w EXCEPT !.events[i].delaying_seqnum = r.delaying_seqnum]
         IN  IF r.busy THEN start_from(w1, i + 1)
             ELSE UNION { start_from(w2, i + 1) : w2 \in event_run(w1, i) }

\* event_queue_start_checked that leaves the idle-kill timer enabled
event_queue_start_keeps_timer(w) ==
    LET checked == IF "reload" \in w.faults THEN { w, manager_reload(w) }
                   ELSE { w }
        loaded(w1) == IF w1.rules THEN { w1 }
                      ELSE IF "rules" \in w.faults
                           THEN { w1, [w1 EXCEPT !.rules = TRUE] }
                           ELSE { [w1 EXCEPT !.rules = TRUE] }
    IN  UNION { UNION {
            IF w2.rules THEN start_from(w2, 1) ELSE { w2 }
            : w2 \in loaded(w1) }
            : w1 \in checked }

\* event_queue_start without its first test
event_queue_start_checked(w) ==
    LET \* the configuration is checked every 3 s at most: it has changed
        \* (manager_reload) or not
        checked == IF "reload" \in w.faults THEN { w, manager_reload(w) }
                   ELSE { w }
        \* udev_rules_new when the rules are not loaded: it fails or not
        loaded(w1) == IF w1.rules THEN { w1 }
                      ELSE IF "rules" \in w.faults
                           THEN { w1, [w1 EXCEPT !.rules = TRUE] }
                           ELSE { [w1 EXCEPT !.rules = TRUE] }
    IN  UNION { UNION {
            IF w2.rules THEN start_from(w2, 1) ELSE { w2 }
            : w2 \in loaded([w1 EXCEPT !.kill_workers_event = FALSE]) }
            : w1 \in checked }

\* event_queue_start that does not test stop_exec_queue
event_queue_start_ignore_stop(w) ==
    IF w.events = << >> \/ w.exit
    THEN { w }
    ELSE event_queue_start_checked(w)

\* event_queue_start
event_queue_start(w) ==
    IF w.events = << >> \/ w.exit \/ w.stop_exec_queue
    THEN { w }
    ELSE event_queue_start_checked(w)

---------------------------------------------------------------------------
(* The callbacks of the supervisor's event loop *)

NewEvent(dev, s) ==
    [ seqnum |-> s, devpath |-> dev.devpath, devpath_old |-> dev.devpath_old,
      devnum |-> dev.devnum, ifindex |-> dev.ifindex, is_block |-> dev.is_block,
      state |-> "QUEUED", worker |-> 0, delaying_seqnum |-> 0,
      timeout_warning |-> "none", timeout |-> "none" ]

\* event_queue_insert of the device dev with sequence number s; it is only
\* called by the supervisor
event_queue_insert(w, dev, s) ==
    [w EXCEPT !.pid = IF @ = 0 THEN MainPid ELSE @,
              !.queue_marker = IF w.events = << >> THEN TRUE ELSE @,
              !.events = Append(@, NewEvent(dev, s))]

\* on_uevent: the kernel's next uevent is for device dev; oom: the new0 of
\* event_queue_insert fails, after manager->pid has been set
on_uevent(w, dev, oom) ==
    LET s == w.seqnum + 1
        w1 == [w EXCEPT !.seqnum = s]
    IN  IF oom THEN { [w1 EXCEPT !.pid = IF @ = 0 THEN MainPid ELSE @] }
        ELSE event_queue_start(event_queue_insert(w1, dev, s))

\* on_worker that does not free the event of the worker that reports
worker_returned_keeps_event(w, p) ==
    IF p \notin DOMAIN w.workers THEN w
    ELSE [w EXCEPT !.workers[p].state = IF @ # "KILLED" THEN "IDLE" ELSE @]

\* on_worker that makes every worker that reports IDLE
worker_returned_revives(w, p) ==
    IF p \notin DOMAIN w.workers THEN w
    ELSE event_free([w EXCEPT !.workers[p].state = "IDLE"],
                    w.workers[p].event, MainPid)

\* one datagram of on_worker, sent by the process p
worker_returned(w, p) ==
    IF p \notin DOMAIN w.workers THEN w
    ELSE LET w1 == [w EXCEPT !.workers[p].state =
                                 IF @ # "KILLED" THEN "IDLE" ELSE @]
         IN  event_free(w1, w.workers[p].event, MainPid)

\* sizeof(struct worker_message): the structure has no member
MessageSize == 0

\* the datagram worker_send_message writes, as recvmsg returns it in the
\* supervisor: its size, whether it carries SCM_CREDENTIALS, and the pid in
\* them (SO_PASSCRED)
worker_message(p) == [size |-> MessageSize, ucred |-> TRUE, pid |-> p]

\* the body of on_worker's loop that takes the sender's pid from every
\* datagram, whatever its size and credentials
on_worker_datagram_unchecked(w, d) == worker_returned(w, d.pid)

\* the body of on_worker's loop for the datagram d
on_worker_datagram(w, d) ==
    IF d.size # MessageSize THEN w
    ELSE IF ~d.ucred \/ d.pid <= 0 THEN w
    ELSE worker_returned(w, d.pid)

RECURSIVE drain(_)
drain(w) ==
    IF w.sock = << >> THEN w
    ELSE drain(on_worker_datagram([w EXCEPT !.sock = Tail(@)], Head(w.sock)))

\* on_worker
on_worker(w) == event_queue_start(drain(w))

\* the children waitpid(-1, WNOHANG) returns
Zombies(w) == { p \in DOMAIN w.proc : w.proc[p].pc = "zombie" }

\* on_sigchld that re-publishes the device the worker was given
worker_failed_sends_dev(w, p) ==
    LET s == w.workers[p].event IN
    IF w.proc[p].status # "success" /\ s # 0
    THEN [w EXCEPT !.db_deleted = @ \cup { s },
                   !.monitor_out = @ \cup { [seqnum |-> s, dev |-> "dev"] }]
    ELSE w

\* on_sigchld, for the reaped worker p: when it failed while it handled an
\* event, delete the device's database entry and send the kernel's device
worker_failed(w, p) ==
    LET s == w.workers[p].event IN
    IF w.proc[p].status # "success" /\ s # 0
    THEN [w EXCEPT !.db_deleted = @ \cup { s },
                   !.monitor_out = @ \cup { [seqnum |-> s, dev |-> "dev_kernel"] }]
    ELSE w

RECURSIVE reap(_)
reap(w) ==
    IF Zombies(w) = {} THEN w
    ELSE LET p == CHOOSE q \in Zombies(w) : TRUE
             w1 == [w EXCEPT !.proc[p].pc = "reaped"]
         IN  reap(IF p \in DOMAIN w.workers
                  THEN worker_free(worker_failed(w1, p), p, MainPid)
                  ELSE w1)

\* on_sigchld
on_sigchld(w) ==
    { IF DOMAIN w1.workers = {}
      THEN [w1 EXCEPT !.kill_workers_event = FALSE]
      ELSE w1 : w1 \in event_queue_start(reap(w)) }

\* on_event_timeout that sends SIGKILL and leaves the worker's state alone
on_event_timeout_no_mark(w, i) ==
    [Signal(w, w.events[i].worker, "kill") EXCEPT !.events[i].timeout = "fired"]

\* on_event_timeout of the event at index i
on_event_timeout(w, i) ==
    LET p == w.events[i].worker IN
    [Signal(w, p, "kill") EXCEPT !.workers[p].state = "KILLED",
                                 !.events[i].timeout = "fired"]

\* on_event_timeout_warning of the event at index i
on_event_timeout_warning(w, i) ==
    [w EXCEPT !.events[i].timeout_warning = "fired"]

\* on_kill_workers_event
on_kill_workers_event(w) ==
    [manager_kill_workers(w) EXCEPT !.kill_workers_event = FALSE]

\* on_exit_timeout that logs and does not leave the loop
on_exit_timeout_logs(w) == [w EXCEPT !.exit_timeout = FALSE]

\* on_exit_timeout
on_exit_timeout(w) == [w EXCEPT !.exit_timeout = FALSE, !.loop = "ETIMEDOUT"]

\* on_inotify
on_inotify(w) == [w EXCEPT !.kill_workers_event = FALSE]

\* on_post that arms the idle-kill timer whatever the queue holds
on_post_arms_always(w) ==
    IF DOMAIN w.workers # {} THEN [w EXCEPT !.kill_workers_event = TRUE]
    ELSE IF w.events # << >> THEN w
    ELSE IF w.exit THEN [w EXCEPT !.loop = "0"]
    ELSE w

\* on_post that does not look at the pool before it leaves the loop
on_post_ignores_workers(w) ==
    IF w.events # << >> THEN w
    ELSE IF w.exit THEN [w EXCEPT !.loop = "0"]
    ELSE IF DOMAIN w.workers # {} THEN [w EXCEPT !.kill_workers_event = TRUE]
    ELSE w

\* on_post
on_post(w) ==
    IF w.events # << >> THEN w
    ELSE IF DOMAIN w.workers # {} THEN [w EXCEPT !.kill_workers_event = TRUE]
    ELSE IF w.exit THEN [w EXCEPT !.loop = "0"]
    ELSE w

\* the string of a message that is not a set-env, and a malformed set-env
NoEnv == << "k" >>

\* the set-env string of the scheduler's specifications: what a well-formed
\* one does to the workers is what SET_LOG_LEVEL does, and what it does to
\* the property overrides is explored by SpecEnv
BaseEnv == { NoEnv }

\* set-env strings: "k=v", "k=", "k", "j=v", "j=", "=v", "k=="
EnvStrings ==
    { << "k", "=", "v" >>, << "k", "=" >>, << "k" >>, << "j", "=", "v" >>,
      << "j", "=" >>, << "=", "v" >>, << "k", "=", "=" >> }

CtrlTypes ==
    { "SET_LOG_LEVEL", "STOP_EXEC_QUEUE", "START_EXEC_QUEUE", "RELOAD",
      "SET_ENV", "SET_CHILDREN_MAX", "PING", "EXIT" }

\* strchr(str, '='): the index of the first '=', 0 when there is none
strchr(str) ==
    IF \E i \in 1..Len(str) : str[i] = "="
    THEN CHOOSE i \in 1..Len(str) :
            str[i] = "=" /\ \A j \in 1..(i - 1) : str[j] # "="
    ELSE 0

\* strndup(str, eq - str)
env_key(str) == SubSeq(str, 1, strchr(str) - 1)

\* eq++: the text after the first '='
env_value(str) == SubSeq(str, strchr(str) + 1, Len(str))

\* hashmap_remove2
hashmap_remove2(h, key) == [k \in DOMAIN h \ { key } |-> h[k]]

\* hashmap_put of a key the map does not hold; value is {} for NULL
hashmap_put(h, key, value) ==
    [k \in DOMAIN h \cup { key } |-> IF k = key THEN value ELSE h[k]]

\* the allocations of the set-env branch that can fail for this message
env_allocations(w, str) ==
    IF "oom" \notin w.faults \/ strchr(str) = 0 THEN {}
    ELSE { "key", "put" }
           \cup (IF DOMAIN w.properties = {} THEN { "map" } ELSE {})
           \cup (IF env_value(str) = << >> THEN { "val" } ELSE {})

\* on_ctrl_msg, the set-env branch: oom names the allocation that fails
set_env(w, str, oom) ==
    IF strchr(str) = 0 THEN w
    ELSE IF oom = "key" THEN w
    ELSE LET key == env_key(str)
             removed == [w EXCEPT !.properties = hashmap_remove2(@, key)]
         IN  IF oom = "map" THEN removed
             ELSE IF env_value(str) # << >>
             THEN IF oom = "put" THEN removed
                  ELSE manager_kill_workers(
                         [removed EXCEPT !.properties = hashmap_put(@, key, {})])
             ELSE IF oom \in { "val", "put" } THEN removed
                  ELSE manager_kill_workers(
                         [removed EXCEPT !.properties =
                              hashmap_put(@, key, { env_value(str) })])

\* on_ctrl_msg: one message of type t; n is the value of SET_CHILDREN_MAX,
\* str the string of SET_ENV.
\* the handler with a STOP_EXEC_QUEUE that flips the flag
on_ctrl_msg_flips(w, t, n, str) ==
    CASE t = "SET_LOG_LEVEL" -> { manager_kill_workers(w) }
      [] t = "STOP_EXEC_QUEUE" -> { [w EXCEPT !.stop_exec_queue = ~@] }
      [] t = "START_EXEC_QUEUE" ->
            event_queue_start([w EXCEPT !.stop_exec_queue = FALSE])
      [] t = "RELOAD" -> { manager_reload(w) }
      [] t = "SET_ENV" ->
            { set_env(w, str, oom) : oom \in env_allocations(w, str) \cup { "none" } }
      [] t = "SET_CHILDREN_MAX" -> { [w EXCEPT !.children_max = n] }
      [] t = "PING" -> { w }
      [] t = "EXIT" -> manager_exit(w)

on_ctrl_msg(w, t, n, str) ==
    CASE t = "SET_LOG_LEVEL" -> { manager_kill_workers(w) }
      [] t = "STOP_EXEC_QUEUE" -> { [w EXCEPT !.stop_exec_queue = TRUE] }
      [] t = "START_EXEC_QUEUE" ->
            event_queue_start([w EXCEPT !.stop_exec_queue = FALSE])
      [] t = "RELOAD" -> { manager_reload(w) }
      [] t = "SET_ENV" ->
            { set_env(w, str, oom) : oom \in env_allocations(w, str) \cup { "none" } }
      [] t = "SET_CHILDREN_MAX" -> { [w EXCEPT !.children_max = n] }
      [] t = "PING" -> { w }
      [] t = "EXIT" -> manager_exit(w)

---------------------------------------------------------------------------
(* The worker children (worker_spawn, case 0) *)

\* the worker has handled its device: worker_send_message, then epoll_wait
worker_send_message(w, p) ==
    [w EXCEPT !.proc[p].pc = "wait", !.sock = Append(@, worker_message(p))]

\* udev_monitor_receive_device in the worker's wait loop
worker_receive_device(w, p) ==
    [w EXCEPT !.proc[p].pc = "busy", !.proc[p].inbox = FALSE]

\* the process p ends with the given exit status
Exited(w, p, status) ==
    [w EXCEPT !.proc[p] = [@ EXCEPT !.pc = "zombie", !.sig = "none",
                                    !.inbox = FALSE, !.status = status]]

---------------------------------------------------------------------------
(* One worker child, step by step: the loop of worker_spawn, case 0.  The
   record holds the device it handles, where it is in the loop, the lock it
   holds on the device node, whether another process holds an exclusive
   lock on that node, and the steps it has taken for the device. *)

NoDevice ==
    [ action |-> "none", subsystem |-> "none", sysname |-> << >>,
      devtype |-> "none", parent |-> FALSE ]

\* before the fork
NoWorker ==
    [ pc |-> "none", dev |-> NoDevice, fd_lock |-> "none", opened |-> "none",
      exclusive |-> FALSE, trace |-> << >> ]

\* the devices a worker is given: the action, and what udev_device_get_
\* subsystem, _sysname, _devtype and _parent return
WorkerDevices ==
    { [ action |-> a, subsystem |-> ss, sysname |-> n, devtype |-> t,
        parent |-> par ] :
        a \in { "add", "remove" }, ss \in { "block", "net" },
        n \in { << "s", "d", "a" >>, << "d", "m", "-", "0" >>,
                << "m", "d", "0" >>, << "d", "r", "b", "d", "1" >>,
                << "d", "m", "0" >> },
        t \in { "disk", "partition" }, par \in BOOLEAN }

startswith(str, prefix) ==
    Len(prefix) <= Len(str) /\ SubSeq(str, 1, Len(prefix)) = prefix

\* shall_lock_device
shall_lock_device(dev) ==
    /\ dev.subsystem = "block"
    /\ ~startswith(dev.sysname, << "d", "m", "-" >>)
    /\ ~startswith(dev.sysname, << "m", "d" >>)
    /\ ~startswith(dev.sysname, << "d", "r", "b", "d" >>)

\* the worker takes a device: the one it was forked for, or the one it
\* receives in its wait loop; oom: udev_event_new fails and the worker
\* exits
worker_takes(r, dev, oom) ==
    [r EXCEPT !.pc = IF oom THEN "exit" ELSE "lock", !.dev = dev,
              !.fd_lock = "none", !.opened = "none", !.trace = << >>]

\* the locking step that applies the rules although flock has failed
worker_locks_anyway(r, open_ok) ==
    IF r.dev.action # "remove" /\ shall_lock_device(r.dev)
    THEN IF r.dev.devtype = "partition" /\ ~r.dev.parent
         THEN [r EXCEPT !.pc = "rules"]
         ELSE IF ~open_ok
         THEN [r EXCEPT !.pc = "rules", !.opened = "failed"]
         ELSE IF r.exclusive
         THEN [r EXCEPT !.pc = "rules", !.opened = "ok",
                        !.trace = Append(@, "skip")]
         ELSE [r EXCEPT !.pc = "rules", !.opened = "ok", !.fd_lock = "held",
                        !.trace = Append(@, "lock")]
    ELSE [r EXCEPT !.pc = "rules"]

\* the locking step: open the node of the device (of the parent, for a
\* partition) and flock(LOCK_SH|LOCK_NB), which fails while another process
\* holds an exclusive lock; open_ok: open succeeds
worker_locks(r, open_ok) ==
    IF r.dev.action # "remove" /\ shall_lock_device(r.dev)
    THEN IF r.dev.devtype = "partition" /\ ~r.dev.parent
         THEN [r EXCEPT !.pc = "rules"]
         ELSE IF ~open_ok
         THEN [r EXCEPT !.pc = "rules", !.opened = "failed"]
         ELSE IF r.exclusive
         THEN [r EXCEPT !.pc = "reply", !.opened = "ok",
                        !.trace = Append(@, "skip")]
         ELSE [r EXCEPT !.pc = "rules", !.opened = "ok", !.fd_lock = "held",
                        !.trace = Append(@, "lock")]
    ELSE [r EXCEPT !.pc = "rules"]

\* the order of the steps with the lock released after the completion
\* message
worker_order_unlock_last(pc) ==
    CASE pc = "rules" -> "run"
      [] pc = "run" -> "publish"
      [] pc = "publish" -> "reply"
      [] pc = "reply" -> "unlock"
      [] pc = "unlock" -> "wait"

\* the order of the steps after the locking step: udev_event_execute_rules,
\* udev_event_execute_run, safe_close(fd_lock), udev_monitor_send_device,
\* worker_send_message, and the wait for the next device
worker_order(pc) ==
    CASE pc = "rules" -> "run"
      [] pc = "run" -> "unlock"
      [] pc = "unlock" -> "publish"
      [] pc = "publish" -> "reply"
      [] pc = "reply" -> "wait"

\* one of these steps; safe_close(fd_lock) does nothing without a lock
worker_step(r) ==
    LET done == [r EXCEPT !.pc = IF r.pc = "reply" /\ "skip" \in Range(r.trace)
                                 THEN "wait" ELSE worker_order(r.pc)]
    IN  IF r.pc = "unlock"
        THEN IF r.fd_lock = "held"
             THEN [done EXCEPT !.fd_lock = "none", !.trace = Append(@, "unlock")]
             ELSE done
        ELSE [done EXCEPT !.trace = Append(@, r.pc)]

---------------------------------------------------------------------------
(* Actions *)

NoProcs == [q \in {} |-> 0]

AllFaults ==
    { "timer", "send", "fork", "worker_new", "reload", "rules", "oom", "crash" }

\* the state manager_new leaves, under one of the fault sets F, in a run
\* that forks at most forks children
StartFrom(F, forks, caps, queues) ==
    /\ faults \in F
    /\ fork_bound = forks
    /\ events \in queues
    /\ workers = NoProcs
    /\ children_max \in caps
    /\ stop_exec_queue = FALSE
    /\ exit = FALSE
    /\ rules = TRUE
    /\ kill_workers_event = FALSE
    /\ exit_timeout = FALSE
    /\ ctrl_event = TRUE
    /\ uevent_event = TRUE
    /\ inotify_event = TRUE
    /\ pid = 0
    /\ queue_marker \in BOOLEAN
    /\ loop = "running"
    /\ seqnum = 0
    /\ proc = NoProcs
    /\ sock = << >>
    /\ db_deleted = {}
    /\ monitor_out = {}
    /\ properties = << >>
    /\ netlink = << >>
    /\ ctrl_in = << >>
    /\ pending = {}
    /\ wk = NoWorker
    /\ ctrl_last = NoMsg
    /\ host = NoHost
    /\ listen = NoFds
    /\ scan = NoScan

\* the queue is empty
StartAt(F, forks, caps) == StartFrom(F, forks, caps, { << >> })

\* the cap is set when the loop starts
StartWith(F, forks) == StartAt(F, forks, 1..MaxChildren)

Start(F) == StartWith(F, MaxForks)

OnUevent(D, max) ==
    /\ loop = "running" /\ uevent_event /\ seqnum < max
    /\ \E dev \in D, oom \in BOOLEAN :
          /\ oom => "oom" \in faults
          /\ \E w \in on_uevent(World, dev, oom) : Becomes(w)

OnWorker ==
    /\ loop = "running" /\ sock # << >>
    /\ \E w \in on_worker(World) : Becomes(w)

OnSigchld ==
    /\ loop = "running" /\ Zombies(World) # {}
    /\ \E w \in on_sigchld(World) : Becomes(w)

OnCtrlMsg(types, strs) ==
    /\ loop = "running" /\ ctrl_event
    /\ \E t \in types, n \in 0..MaxChildren, str \in strs :
          /\ t # "SET_CHILDREN_MAX" => n = 0
          /\ t # "SET_ENV" => str = NoEnv
          /\ \E w \in on_ctrl_msg(World, t, n, str) : Becomes(w)

\* on_ctrl_msg, with the message recorded: times is 2 when the message
\* handled just before was the same one
OnCtrlMsgAgain(types, strs) ==
    /\ loop = "running" /\ ctrl_event
    /\ \E t \in types, n \in 0..MaxChildren, str \in strs :
          /\ t # "SET_CHILDREN_MAX" => n = 0
          /\ t # "SET_ENV" => str = NoEnv
          /\ LET same == ctrl_last.t = t /\ ctrl_last.n = n /\ ctrl_last.str = str
                 msg == [ t |-> t, n |-> n, str |-> str,
                          times |-> IF same THEN 2 ELSE 1 ]
             IN  \E w \in on_ctrl_msg(World, t, n, str) :
                    Handled([w EXCEPT !.ctrl_last = msg])

OnSigterm ==
    /\ loop = "running"
    /\ \E w \in manager_exit(World) : Becomes(w)

OnSighup ==
    /\ loop = "running"
    /\ Becomes(manager_reload(World))

OnInotify ==
    /\ loop = "running" /\ inotify_event
    /\ Becomes(on_inotify(World))

OnEventTimeout ==
    /\ loop = "running"
    /\ \E i \in 1..Len(events) :
          /\ events[i].timeout = "armed"
          /\ Becomes(on_event_timeout(World, i))

OnEventTimeoutWarning ==
    /\ loop = "running"
    /\ \E i \in 1..Len(events) :
          /\ events[i].timeout_warning = "armed"
          /\ Becomes(on_event_timeout_warning(World, i))

OnKillWorkersEvent ==
    /\ loop = "running" /\ kill_workers_event
    /\ Becomes(on_kill_workers_event(World))

OnExitTimeout ==
    /\ loop = "running" /\ exit_timeout
    /\ Becomes(on_exit_timeout(World))

OnPost ==
    /\ loop = "running"
    /\ Becomes(on_post(World))

\* the worker p finishes its device and reports to the supervisor
WorkerDone ==
    \E p \in DOMAIN proc :
       /\ proc[p].pc = "busy"
       /\ Becomes(worker_send_message(World, p))

\* the worker p takes the next device from its monitor
WorkerReceive ==
    \E p \in DOMAIN proc :
       /\ proc[p].pc = "wait" /\ proc[p].inbox
       /\ Becomes(worker_receive_device(World, p))

\* the worker p reads SIGTERM from its signalfd and exits with success
WorkerSigterm ==
    \E p \in DOMAIN proc :
       /\ proc[p].pc = "wait" /\ proc[p].sig = "term"
       /\ Becomes(Exited(World, p, "success"))

\* the worker p dies of SIGKILL
WorkerKilled ==
    \E p \in DOMAIN proc :
       /\ Alive(proc[p]) /\ proc[p].sig = "kill"
       /\ Becomes(Exited(World, p, "failure"))

\* the worker p fails on its own (exit code 1, or a fatal signal)
WorkerFails ==
    \E p \in DOMAIN proc :
       /\ Alive(proc[p]) /\ "crash" \in faults
       /\ Becomes(Exited(World, p, "failure"))

Init == Start({ AllFaults \ { "timer" } })

Next ==
    \/ OnUevent(CoreDevices, MaxEvents)
    \/ OnWorker
    \/ OnSigchld
    \/ OnCtrlMsg(CtrlTypes, BaseEnv)
    \/ OnSigterm
    \/ OnSighup
    \/ OnInotify
    \/ OnEventTimeout
    \/ OnEventTimeoutWarning
    \/ OnKillWorkersEvent
    \/ OnExitTimeout
    \/ OnPost
    \/ WorkerDone
    \/ WorkerReceive
    \/ WorkerSigterm
    \/ WorkerKilled
    \/ WorkerFails

Spec == Init /\ [][Next]_vars

---------------------------------------------------------------------------
(* The queue's ordering: every kind of device, fewer kinds of disturbance *)

OrderCtrlTypes == { "SET_LOG_LEVEL", "START_EXEC_QUEUE", "EXIT" }

InitOrder ==
    /\ Start({ { "fork", "send" } })
    /\ children_max = MaxChildren
    /\ queue_marker = FALSE

NextOrder ==
    \/ OnUevent(Devices, MaxOrderEvents)
    \/ OnWorker
    \/ OnSigchld
    \/ OnCtrlMsg(OrderCtrlTypes, BaseEnv)
    \/ OnEventTimeout
    \/ WorkerDone
    \/ WorkerReceive
    \/ WorkerSigterm
    \/ WorkerKilled

SpecOrder == InitOrder /\ [][NextOrder]_vars

---------------------------------------------------------------------------
(* children_max = 1 for the whole run, with and without failing forks *)

SpawnFaults == { "fork", "worker_new" }

InitSerial ==
    /\ Start({ AllFaults \ { "timer" }, AllFaults \ ({ "timer" } \cup SpawnFaults) })
    /\ children_max = 1

NextSerial ==
    \/ OnUevent(CoreDevices, MaxOrderEvents)
    \/ OnWorker
    \/ OnSigchld
    \/ OnCtrlMsg(CtrlTypes \ { "SET_CHILDREN_MAX" }, BaseEnv)
    \/ OnSigterm
    \/ OnSighup
    \/ OnInotify
    \/ OnEventTimeout
    \/ OnEventTimeoutWarning
    \/ OnKillWorkersEvent
    \/ OnExitTimeout
    \/ OnPost
    \/ WorkerDone
    \/ WorkerReceive
    \/ WorkerSigterm
    \/ WorkerKilled
    \/ WorkerFails

SpecSerial == InitSerial /\ [][NextSerial]_vars

---------------------------------------------------------------------------
(* The timers of an event, with and without sd_event_add_time failing *)

TimerCtrlTypes == CtrlTypes \ { "SET_CHILDREN_MAX" }

InitTimers ==
    /\ Start({ { "timer", "crash" }, { "crash" } })
    /\ queue_marker = FALSE

NextTimers ==
    \/ OnUevent(CoreDevices, MaxEvents)
    \/ OnWorker
    \/ OnSigchld
    \/ OnCtrlMsg(TimerCtrlTypes, BaseEnv)
    \/ OnEventTimeout
    \/ OnEventTimeoutWarning
    \/ OnKillWorkersEvent
    \/ OnPost
    \/ WorkerDone
    \/ WorkerReceive
    \/ WorkerSigterm
    \/ WorkerKilled
    \/ WorkerFails

SpecTimers == InitTimers /\ [][NextTimers]_vars

---------------------------------------------------------------------------
(* Shutdown: an armed timer fires while the loop runs; a worker may hang *)

ShutdownCtrlTypes == { "EXIT", "RELOAD" }

InitShutdown ==
    /\ Start({ { "timer", "crash" }, { "crash" } })
    /\ queue_marker = FALSE

NextShutdown ==
    \/ OnUevent(CoreDevices, MaxEvents)
    \/ OnWorker
    \/ OnSigchld
    \/ OnCtrlMsg(ShutdownCtrlTypes, BaseEnv)
    \/ OnSigterm
    \/ OnEventTimeout
    \/ OnKillWorkersEvent
    \/ OnExitTimeout
    \/ OnPost
    \/ WorkerDone
    \/ WorkerReceive
    \/ WorkerSigterm
    \/ WorkerKilled
    \/ WorkerFails

SpecShutdown ==
    InitShutdown /\ [][NextShutdown]_vars /\ WF_vars(OnExitTimeout)

---------------------------------------------------------------------------
(* The event loop's choice among the ready sources.  The specifications
   above let every callback run whenever its source has input; here the
   input waits in the sockets, the loop polls (sd_event_wait) and then
   dispatches one of the sources it found ready, by priority. *)

NORMAL == 0
IDLE == 100

Sources == { "uevent", "inotify", "worker", "sigchld", "ctrl" }

\* every source at the default priority
priority_all_normal(src) == NORMAL

\* the priority manager_new gives each source: the control source is moved
\* to SD_EVENT_PRIORITY_IDLE, the others keep the default
priority(src) == IF src = "ctrl" THEN IDLE ELSE NORMAL

\* the sources whose file descriptor is readable
Ready ==
    { src \in Sources :
        \/ src = "uevent" /\ uevent_event /\ netlink # << >>
        \/ src = "worker" /\ sock # << >>
        \/ src = "sigchld" /\ Zombies(World) # {}
        \/ src = "ctrl" /\ ctrl_event /\ ctrl_in # << >> }

\* sd_event_dispatch takes a pending source of the best (lowest) priority
Runnable(src) ==
    /\ src \in pending
    /\ \A other \in pending : priority(src) <= priority(other)

\* the world a dispatched callback starts from
Dispatched == [World EXCEPT !.pending = {}]

\* the kernel sends a uevent
KernelSends ==
    /\ seqnum + Len(netlink) < MaxEvents
    /\ \E dev \in CoreDevices :
          Becomes([World EXCEPT !.netlink = Append(@, dev)])

\* a client (udevadm control) sends a message; received is the number of
\* uevents the netlink socket has received by then
ClientSends ==
    /\ Len(ctrl_in) < MaxCtrlPending
    /\ \E t \in { "PING", "SET_LOG_LEVEL", "STOP_EXEC_QUEUE", "START_EXEC_QUEUE" } :
          Becomes([World EXCEPT !.ctrl_in =
                      Append(@, [type |-> t, received |-> seqnum + Len(netlink)])])

\* sd_event_wait: the loop polls its sources; inotify events may have come
LoopWaits ==
    /\ loop = "running" /\ pending = {}
    /\ \E watch \in SUBSET { "inotify" } :
          /\ watch # {} => inotify_event
          /\ Ready \cup watch # {}
          /\ Becomes([World EXCEPT !.pending = Ready \cup watch])

DispatchUevent ==
    /\ loop = "running" /\ Runnable("uevent")
    /\ \E oom \in BOOLEAN :
          /\ oom => "oom" \in faults
          /\ \E w \in on_uevent([Dispatched EXCEPT !.netlink = Tail(@)],
                                 Head(netlink), oom) : Becomes(w)

DispatchInotify ==
    /\ loop = "running" /\ Runnable("inotify")
    /\ Becomes(on_inotify(Dispatched))

DispatchWorker ==
    /\ loop = "running" /\ Runnable("worker")
    /\ \E w \in on_worker(Dispatched) : Becomes(w)

DispatchSigchld ==
    /\ loop = "running" /\ Runnable("sigchld")
    /\ \E w \in on_sigchld(Dispatched) : Becomes(w)

DispatchCtrl ==
    /\ loop = "running" /\ Runnable("ctrl")
    /\ \E w \in on_ctrl_msg([Dispatched EXCEPT !.ctrl_in = Tail(@)],
                              Head(ctrl_in).type, 0, NoEnv) : Becomes(w)

InitPriority ==
    /\ Start({ { "oom", "crash" } })
    /\ queue_marker = FALSE

NextPriority ==
    \/ KernelSends
    \/ ClientSends
    \/ LoopWaits
    \/ DispatchUevent
    \/ DispatchInotify
    \/ DispatchWorker
    \/ DispatchSigchld
    \/ DispatchCtrl
    \/ WorkerDone
    \/ WorkerReceive
    \/ WorkerSigterm
    \/ WorkerFails

SpecPriority == InitPriority /\ [][NextPriority]_vars

---------------------------------------------------------------------------
(* The scenarios: children_max = 2, three uevents, no failure but a worker
   that dies; one more child can be forked than the cap needs *)

InitScenario ==
    /\ StartWith({ { "crash" } }, MaxForks + 1)
    /\ children_max = 2
    /\ queue_marker = FALSE

NextScenario ==
    \/ OnUevent(ScenarioDevices, MaxOrderEvents)
    \/ OnWorker
    \/ OnSigchld
    \/ OnKillWorkersEvent
    \/ OnPost
    \/ WorkerDone
    \/ WorkerReceive
    \/ WorkerSigterm
    \/ WorkerFails

SpecScenario == InitScenario /\ [][NextScenario]_vars

---------------------------------------------------------------------------
(* The reply socket: datagrams that are not a worker's completion message *)

\* datagrams of a wrong size, without credentials, or with a pid <= 0 in
\* them; the pid is that of any child, or none
StrayDatagrams ==
    { [size |-> n, ucred |-> c, pid |-> p] :
        n \in { MessageSize, MessageSize + 1 }, c \in BOOLEAN,
        p \in DOMAIN proc \cup { 0, -1 } }
    \ { worker_message(p) : p \in DOMAIN proc }

\* some process writes a datagram to the write end of worker_watch
StrayReply ==
    /\ Len(sock) < MaxReplies
    /\ \E d \in StrayDatagrams : Becomes([World EXCEPT !.sock = Append(@, d)])

InitReply ==
    /\ Start({ { "worker_new", "crash" } })
    /\ queue_marker = FALSE

NextReply ==
    \/ OnUevent(CoreDevices, MaxEvents)
    \/ OnWorker
    \/ OnSigchld
    \/ StrayReply
    \/ WorkerDone
    \/ WorkerReceive
    \/ WorkerFails

SpecReply == InitReply /\ [][NextReply]_vars

---------------------------------------------------------------------------
(* One worker child and the processes that lock the device node *)

\* fork, or udev_monitor_receive_device in the wait loop
WorkerTakes ==
    /\ wk.pc \in { "none", "wait" }
    /\ \E dev \in WorkerDevices, oom \in BOOLEAN :
          Becomes([World EXCEPT !.wk = worker_takes(wk, dev, oom)])

WorkerLocks ==
    /\ wk.pc = "lock"
    /\ \E open_ok \in BOOLEAN :
          Becomes([World EXCEPT !.wk = worker_locks(wk, open_ok)])

WorkerStep ==
    /\ wk.pc \in { "rules", "run", "unlock", "publish", "reply" }
    /\ Becomes([World EXCEPT !.wk = worker_step(wk)])

\* SIGTERM read from the signalfd in the wait loop
WorkerLeaves ==
    /\ wk.pc = "wait"
    /\ Becomes([World EXCEPT !.wk = [wk EXCEPT !.pc = "exit"]])

\* another process takes an exclusive lock on the node (it cannot while
\* the worker holds its shared lock), or releases it
ExternalLock ==
    /\ wk.fd_lock # "held"
    /\ Becomes([World EXCEPT !.wk = [wk EXCEPT !.exclusive = ~@]])

InitWorker ==
    /\ Start({ { "crash" } })
    /\ children_max = 1
    /\ queue_marker = FALSE

NextWorker ==
    \/ WorkerTakes
    \/ WorkerLocks
    \/ WorkerStep
    \/ WorkerLeaves
    \/ ExternalLock

SpecWorker == InitWorker /\ [][NextWorker]_vars

---------------------------------------------------------------------------
(* main: the default of children_max.  Memory is counted in MiB, so that
   physical_memory() / (128LU*1024*1024) is mem_mib \div 128. *)

MemSizes ==
    { 64, 127, 128, 512, 1151, 1152, 1279, 1280, 1281, 2048, 2176, 4096,
      16384, 131072 }

\* the machines main can find: the CPUs in the affinity mask, whether
\* sched_getaffinity succeeds, and the physical memory
Hosts ==
    { [ pc |-> "probed", ncpu |-> c, affinity |-> a, mem_mib |-> m ] :
        c \in 1..MaxCpus, a \in BOOLEAN, m \in MemSizes }

\* the default as min(max(10, 8 + 8 * nCPUs), memory / 128 MiB)
children_max_min_of_max(h) ==
    MIN(MAX(10, 8 + (IF h.affinity THEN h.ncpu * 8 ELSE 0)), h.mem_mib \div 128)

\* main, if (arg_children_max == 0): the value it computes
children_max_default(h) ==
    LET cpus == 8 + (IF h.affinity THEN h.ncpu * 8 ELSE 0)
        mem_limit == h.mem_mib \div 128
    IN  MAX(10, MIN(cpus, mem_limit))

\* sched_getaffinity and physical_memory
MainProbes ==
    /\ host.pc = "start"
    /\ \E h \in Hosts : Becomes([World EXCEPT !.host = h])

\* the cap is set from the machine if the configuration has left it 0
MainSetsChildrenMax ==
    /\ host.pc = "probed"
    /\ Becomes([World EXCEPT
                  !.host.pc = "set",
                  !.children_max = IF @ = 0 THEN children_max_default(host)
                                   ELSE @])

InitDefault ==
    /\ StartAt({ { "crash" } }, MaxForks, 0..MaxChildren)
    /\ queue_marker = FALSE

NextDefault ==
    \/ MainProbes
    \/ MainSetsChildrenMax

SpecDefault == InitDefault /\ [][NextDefault]_vars

---------------------------------------------------------------------------
(* main: the descriptors passed by the service manager.  A descriptor is
   given by its kind: an AF_LOCAL/SOCK_SEQPACKET socket, an
   AF_NETLINK/SOCK_RAW socket, an AF_LOCAL/SOCK_STREAM socket, a file. *)

SD_LISTEN_FDS_START == 3
EINVAL == 22

FdKinds == { "seqpacket", "netlink", "stream", "file" }

\* what sd_listen_fds can report: up to MaxFds descriptors of any kind
PassedFds == UNION { [1..n -> FdKinds] : n \in 0..MaxFds }

\* the scan of listen_fds from descriptor i on: [r, ctrl_fd, netlink_fd]
RECURSIVE listen_scan(_, _, _, _)
listen_scan(fds, i, ctrl_fd, netlink_fd) ==
    LET fd == SD_LISTEN_FDS_START + i - 1
    IN  IF i > Len(fds)
        THEN [ r |-> 0, fd_ctrl |-> ctrl_fd, fd_uevent |-> netlink_fd ]
        ELSE IF fds[i] = "seqpacket"
        THEN IF ctrl_fd >= 0
             THEN [ r |-> -EINVAL, fd_ctrl |-> -1, fd_uevent |-> -1 ]
             ELSE listen_scan(fds, i + 1, fd, netlink_fd)
        ELSE IF fds[i] = "netlink"
        THEN IF netlink_fd >= 0
             THEN [ r |-> -EINVAL, fd_ctrl |-> -1, fd_uevent |-> -1 ]
             ELSE listen_scan(fds, i + 1, ctrl_fd, fd)
        ELSE [ r |-> -EINVAL, fd_ctrl |-> -1, fd_uevent |-> -1 ]

\* listen_fds that fails unless it has found both sockets
listen_fds_wants_both(fds) ==
    LET res == listen_scan(fds, 1, -1, -1)
    IN  IF res.r = 0 /\ (res.fd_ctrl < 0 \/ res.fd_uevent < 0)
        THEN [ r |-> -EINVAL, fd_ctrl |-> -1, fd_uevent |-> -1 ]
        ELSE res

\* listen_fds: on failure main's fd_ctrl and fd_uevent keep their -1
listen_fds(fds) == listen_scan(fds, 1, -1, -1)

\* the service manager starts main with some descriptors
MainStarted ==
    /\ listen.pc = "start"
    /\ \E fds \in PassedFds :
          Becomes([World EXCEPT !.listen = [NoFds EXCEPT !.pc = "passed",
                                                         !.fds = fds]])

\* main: r = listen_fds(&fd_ctrl, &fd_uevent); if (r < 0) goto exit
MainListens ==
    /\ listen.pc = "passed"
    /\ LET res == listen_fds(listen.fds)
       IN  Becomes([World EXCEPT
                     !.listen = [ pc |-> IF res.r < 0 THEN "exit" ELSE "run",
                                  fds |-> listen.fds, r |-> res.r,
                                  fd_ctrl |-> res.fd_ctrl,
                                  fd_uevent |-> res.fd_uevent ]])

InitListen ==
    /\ Start({ { "crash" } })
    /\ children_max = 1
    /\ queue_marker = FALSE

NextListen ==
    \/ MainStarted
    \/ MainListens

SpecListen == InitListen /\ [][NextListen]_vars

---------------------------------------------------------------------------
(* is_devpath_busy on the head of a queue: every queue of one or two events
   in strictly increasing order of seqnum, every seqnum from 0 and every
   delaying_seqnum of the head *)

HeadQueues ==
    { << [NewEvent(dev, s) EXCEPT !.delaying_seqnum = d] >> :
        dev \in CoreDevices, s \in 0..MaxSeqnum, d \in 0..MaxSeqnum }
    \cup
    UNION { { << [NewEvent(dev1, s1) EXCEPT !.delaying_seqnum = d],
                 NewEvent(dev2, s2) >> :
                dev1 \in CoreDevices, dev2 \in CoreDevices,
                d \in 0..MaxSeqnum, s2 \in (s1 + 1)..MaxSeqnum } :
            s1 \in 0..MaxSeqnum }

\* is_devpath_busy(manager, event) for the first event of the queue
ScanHead ==
    /\ ~scan.done /\ events # << >>
    /\ LET r == is_devpath_busy(events, events[1])
       IN  Becomes([World EXCEPT
                     !.events[1].delaying_seqnum = r.delaying_seqnum,
                     !.scan = [ done |-> TRUE, busy |-> r.busy ]])

InitHead ==
    /\ StartFrom({ { "crash" } }, MaxForks, { 1 }, HeadQueues)
    /\ queue_marker = TRUE

NextHead == ScanHead

SpecHead == InitHead /\ [][NextHead]_vars

\* The scheduler under the scheduling the kernel and sd-event give it: a
\* worker that has a device finishes it and reports (or dies), a worker told
\* to stop stops, and the supervisor reads every reply and reaps every
\* child. No fork fails and the rules always load; no message stops the
\* queue or asks for exit. udevadm control --children-max may come at any
\* time, with any value from 0 up.
InitLive ==
    /\ Start({ { "crash" } })
    /\ queue_marker = FALSE

NextLive ==
    \/ OnUevent(CoreDevices, MaxEvents)
    \/ OnWorker
    \/ OnSigchld
    \/ OnCtrlMsg({ "SET_CHILDREN_MAX" }, BaseEnv)
    \/ OnKillWorkersEvent
    \/ OnPost
    \/ WorkerDone
    \/ WorkerReceive
    \/ WorkerSigterm
    \/ WorkerFails

\* a step of a worker that has something to do, or of the supervisor
\* reading the replies that wait for it
Progress ==
    \/ WorkerDone
    \/ WorkerReceive
    \/ WorkerSigterm
    \/ OnWorker

\* weak fairness of OnSigchld, with its enabling condition written out: a
\* child that has exited is reaped
ChildrenReaped ==
    \/ []<>(~(loop = "running" /\ Zombies(World) # {}))
    \/ []<><<OnSigchld>>_vars

SpecLive == InitLive /\ [][NextLive]_vars /\ WF_vars(Progress) /\ ChildrenReaped

---------------------------------------------------------------------------
(* Control messages handled twice in a row, in runs where nothing fails and
   in runs where fork may fail *)

CtrlStrings == { NoEnv, << "k", "=", "v" >>, << "k", "=" >> }

InitCtrl ==
    /\ Start({ { "crash" }, { "fork", "crash" } })
    /\ queue_marker = FALSE

NextCtrl ==
    \/ OnUevent(CoreDevices, MaxEvents)
    \/ OnWorker
    \/ OnSigchld
    \/ OnCtrlMsgAgain(CtrlTypes, CtrlStrings)
    \/ WorkerDone
    \/ WorkerReceive
    \/ WorkerFails

SpecCtrl == InitCtrl /\ [][NextCtrl]_vars

---------------------------------------------------------------------------
(* The property overrides: every set-env string, allocations that fail *)

InitEnv ==
    /\ Start({ { "oom" } })
    /\ queue_marker = FALSE

NextEnv ==
    \/ OnUevent(CoreDevices, MaxEvents)
    \/ OnWorker
    \/ OnSigchld
    \/ OnCtrlMsg({ "SET_ENV" }, EnvStrings)
    \/ OnPost
    \/ WorkerDone
    \/ WorkerReceive
    \/ WorkerSigterm

SpecEnv == InitEnv /\ [][NextEnv]_vars

---------------------------------------------------------------------------
(* Properties *)

Pool == DOMAIN workers

\* the queue entries as a set, before and after a step
Queue == { events[i] : i \in 1..Len(events) }
QueueAfter == { events'[i] : i \in 1..Len(events') }

\* one devpath is a proper ancestor of the other: a prefix that ends where
\* the longer path has a '/'
Ancestor(a, b) ==
    /\ Len(a) < Len(b)
    /\ SamePrefix(a, b, Len(a))
    /\ b[Len(a) + 1] = "/"

SameNode(e1, e2) ==
    major(e2.devnum) # 0 /\ e1.devnum = e2.devnum /\ e1.is_block = e2.is_block

SameInterface(e1, e2) == e2.ifindex > 0 /\ e1.ifindex = e2.ifindex

\* the relation of claim C1 as the specification words it
RelatedAsClaimed(e1, e2) ==
    \/ SameNode(e1, e2)
    \/ SameInterface(e1, e2)
    \/ e1.devpath = e2.devpath
    \/ Ancestor(e1.devpath, e2.devpath)
    \/ Ancestor(e2.devpath, e1.devpath)

\* the same, but an identical devpath counts only for a later event that
\* carries neither a device number nor an interface index
Related(e1, e2) ==
    \/ SameNode(e1, e2)
    \/ SameInterface(e1, e2)
    \/ e1.devpath = e2.devpath /\ major(e2.devnum) = 0 /\ e2.ifindex <= 0
    \/ Ancestor(e1.devpath, e2.devpath)
    \/ Ancestor(e2.devpath, e1.devpath)

\* C1 (as amended): of two events in the queue that touch the same device
\* node, the same network interface or overlapping devpaths (an identical
\* devpath only when the later event has neither devnum nor ifindex), the
\* later one stays QUEUED for as long as the earlier one is in the queue,
\* QUEUED or RUNNING: the earlier one enters RUNNING first and the two
\* never run together.
C1_Order ==
    \A e1 \in Queue, e2 \in Queue :
        e1.seqnum < e2.seqnum /\ Related(e1, e2) => e2.state = "QUEUED"

\* C1 as stated: the same for every pair with an identical devpath as well.
C1_AsStated ==
    \A e1 \in Queue, e2 \in Queue :
        e1.seqnum < e2.seqnum /\ RelatedAsClaimed(e1, e2) => e2.state = "QUEUED"

\* an earlier event runs, a related later one is held back although the
\* pool has room for another worker
C1_Witness ==
    \E e1 \in Queue, e2 \in Queue :
        /\ e1.seqnum < e2.seqnum /\ Related(e1, e2)
        /\ e1.state = "RUNNING" /\ e2.state = "QUEUED"
        /\ e2.delaying_seqnum = e1.seqnum
        /\ Cardinality(Pool) < children_max

\* C2 (as amended): a worker is added to the pool only while the pool,
\* KILLED workers included, stays within children_max: after every step
\* that adds a worker the pool holds at most children_max workers.
C2_SpawnWithinCap ==
    [][Pool' \ Pool # {} => Cardinality(Pool') <= children_max']_vars

\* C2 as stated: the RUNNING and IDLE workers number at most children_max
\* in every state.
C2_AsStated ==
    Cardinality({ p \in Pool : workers[p].state \in { "RUNNING", "IDLE" } })
        <= children_max

\* the pool is full and holds back an event that nothing else blocks
C2_Witness ==
    /\ children_max > 0
    /\ Cardinality(Pool) = children_max
    /\ ~stop_exec_queue /\ ~exit
    /\ \E e \in Queue :
          /\ e.state = "QUEUED"
          /\ ~is_devpath_busy(events, e).busy

C4_StateIffWorker ==
    \A e \in Queue : e.state = "RUNNING" <=> e.worker # 0

\* worker_new has failed (a live child is in no pool entry) and left an
\* event QUEUED without a worker, while another event runs
C4_Witness ==
    /\ \E p \in DOMAIN proc : Alive(proc[p]) /\ p \notin Pool
    /\ \E e \in Queue : e.state = "QUEUED" /\ e.worker = 0
    /\ \E e \in Queue : e.state = "RUNNING" /\ e.worker \in Pool

Timers(e) == { e.timeout_warning, e.timeout }

C6_Delaying ==
    [][\A e2 \in QueueAfter :
          /\ e2.delaying_seqnum <= e2.seqnum
          /\ \A e1 \in Queue :
                e1.seqnum = e2.seqnum => e1.delaying_seqnum <= e2.delaying_seqnum
      ]_vars

\* the third event was held back by the second one
C6_Witness ==
    \E e \in Queue : e.seqnum = 3 /\ e.delaying_seqnum = 2

\* C7 (as amended): a RUNNING worker has an event attached and an IDLE
\* worker has none; a KILLED worker keeps the event it was handling until
\* its completion message arrives or it is reaped.
C7_WorkerEvent ==
    \A p \in Pool :
        /\ workers[p].state \in { "RUNNING", "IDLE", "KILLED" }
        /\ workers[p].state = "RUNNING" => workers[p].event # 0
        /\ workers[p].state = "IDLE" => workers[p].event = 0

\* C7 as stated: a worker is RUNNING exactly when it has an event attached.
C7_AsStated ==
    \A p \in Pool : workers[p].state = "RUNNING" <=> workers[p].event # 0

\* a worker that was killed while it handled an event
C7_Witness ==
    \E p \in Pool : workers[p].state = "KILLED" /\ workers[p].event # 0

\* C8: a KILLED worker stays KILLED, is given no event, and leaves the pool
\* only when its process has exited and is reaped.
C8_KilledIsTerminal ==
    [][\A p \in Pool :
          workers[p].state = "KILLED" =>
              IF p \in Pool'
              THEN /\ workers'[p].state = "KILLED"
                   /\ workers'[p].event \in { 0, workers[p].event }
              ELSE proc[p].pc = "zombie" /\ proc'[p].pc = "reaped"
      ]_vars

\* the completion message of a KILLED worker is in the socket
C8_Witness ==
    \E p \in Pool :
        /\ workers[p].state = "KILLED"
        /\ \E k \in 1..Len(sock) : sock[k].pid = p

\* C9: while stop_exec_queue is set no event becomes RUNNING and no worker
\* is forked, whatever arrives.
C9_Stopped ==
    [][stop_exec_queue /\ stop_exec_queue' =>
          /\ \A e2 \in QueueAfter :
                e2.state = "RUNNING" =>
                    \E e1 \in Queue : e1.seqnum = e2.seqnum /\ e1.state = "RUNNING"
          /\ DOMAIN proc' = DOMAIN proc
          /\ Pool' \subseteq Pool
      ]_vars

\* events were inserted while the queue is stopped: nothing runs although
\* nothing else holds them back
C9_Witness ==
    /\ stop_exec_queue /\ ~exit /\ rules
    /\ Len(events) = 2 /\ DOMAIN proc = {}
    /\ \A e \in Queue : e.state = "QUEUED" /\ ~is_devpath_busy(events, e).busy
    /\ Cardinality(Pool) < children_max

RunningEvents == { e \in Queue : e.state = "RUNNING" }

\* no event enters RUNNING ahead of an earlier event that stays QUEUED
InQueueOrder ==
    \A e2 \in QueueAfter :
        (e2.state = "RUNNING"
            /\ \E e \in Queue : e.seqnum = e2.seqnum /\ e.state = "QUEUED")
        => \A e1 \in QueueAfter : e1.seqnum < e2.seqnum => e1.state = "RUNNING"

Expired == { e \in Queue : e.timeout = "fired" }
ExpiredFreed ==
    { e \in Expired : \A e2 \in QueueAfter : e2.seqnum # e.seqnum }

\* after the kill timer of an event has fired: the event is still RUNNING in
\* the queue, attached to its worker, the worker is KILLED and was sent
\* SIGKILL once
ExpiredHeld ==
    /\ \A p \in DOMAIN proc : proc[p].kills <= 1
    /\ \A e \in Expired :
          /\ e.state = "RUNNING" /\ e.worker \in Pool
          /\ workers[e.worker].state = "KILLED"
          /\ workers[e.worker].event = e.seqnum
          /\ proc[e.worker].kills = 1

Reaped(p) == proc[p].pc = "zombie" /\ proc'[p].pc = "reaped"

\* C11 (as amended): when the kill timer of a RUNNING event fires, its
\* worker is sent SIGKILL once and marked KILLED, and the timer handler does
\* not free the event: it stays RUNNING in the queue, attached to that
\* worker, until on_sigchld reaps the worker (worker_free) or on_worker
\* reads a completion message the worker had sent before it died.
C11_TimeoutKill ==
    [][/\ ExpiredHeld'
       /\ \A e \in ExpiredFreed :
             \/ Reaped(e.worker)
             \/ \E k \in 1..Len(sock) : sock[k].pid = e.worker]_vars

\* C11 as stated: such an event is freed by the reap path only.
C11_AsStated ==
    [][ExpiredHeld' /\ \A e \in ExpiredFreed : Reaped(e.worker)]_vars

\* the kill timer has fired, the worker has died of the SIGKILL and waits
\* to be reaped; its event is still in the queue
C11_Witness ==
    \E e \in Expired :
        /\ proc[e.worker].pc = "zombie" /\ proc[e.worker].status = "failure"
        /\ proc[e.worker].kills = 1
        /\ \A k \in 1..Len(sock) : sock[k].pid # e.worker

\* the workers a step reaps, and those of them that failed while they
\* handled an event
ReapedWorkers == { p \in Pool : Reaped(p) }
Aborted ==
    { workers[p].event : p \in { q \in ReapedWorkers :
                                    /\ proc[q].status # "success"
                                    /\ workers[q].event # 0 } }

RunningSeqnums == { e.seqnum : e \in RunningEvents }

\* C13: manager_exit sets the exit flag, closes the control, inotify and
\* uevent sources, frees the QUEUED events and keeps the RUNNING ones, and
\* marks every worker KILLED, with a SIGTERM to those that were not; from
\* then on the flag stays set, the sources stay closed, no event is
\* inserted and no event enters RUNNING.
C13_Exit ==
    [][/\ exit' =>
             /\ ~ctrl_event' /\ ~inotify_event' /\ ~uevent_event'
             /\ \A e \in QueueAfter : e.state = "RUNNING"
             /\ { e.seqnum : e \in QueueAfter } \subseteq RunningSeqnums
             /\ \A p \in Pool' : p \in Pool /\ workers'[p].state = "KILLED"
       /\ ~exit /\ exit' =>
             /\ { e.seqnum : e \in QueueAfter } = RunningSeqnums
             /\ Pool' = Pool
             /\ \A p \in Pool :
                   (workers[p].state # "KILLED" /\ Alive(proc[p]))
                       => proc'[p].sig \in { "term", "kill" }
       /\ exit => exit'
      ]_vars

\* shutdown has begun while an event was RUNNING and the kernel still has
\* uevents to send: the event is kept, its worker is KILLED
C13_Witness ==
    /\ exit /\ seqnum < MaxEvents /\ loop = "running"
    /\ \E e \in Queue : e.state = "RUNNING" /\ workers[e.worker].state = "KILLED"

C15_PostExit ==
    [][/\ (loop = "running" /\ loop' = "0") =>
             /\ exit /\ events = << >> /\ Pool = {}
             /\ events' = events /\ workers' = workers /\ exit' = exit
       /\ (loop = "running" /\ (events # << >> \/ Pool # {})) =>
             on_post(World).loop = "running"
      ]_vars

\* the loop has ended with code 0 after workers were forked and reaped
C15_Witness ==
    /\ loop = "0" /\ exit /\ events = << >> /\ Pool = {}
    /\ \E p \in DOMAIN proc : proc[p].pc = "reaped"

\* the state a reload leaves when it is applied to the current state
Reloaded == manager_reload(World)

\* C16: manager_reload, in whatever state it is called, marks every worker
\* of the pool KILLED, sends SIGTERM to those that were not KILLED, drops
\* the rules and leaves the rest alone: the queue is unchanged (no event
\* removed, none changes state), no worker leaves the pool or loses its
\* event, and no flag or source changes.
C16_Reload ==
    /\ ~Reloaded.rules
    /\ Reloaded.events = events
    /\ DOMAIN Reloaded.workers = Pool
    /\ \A p \in Pool :
          /\ Reloaded.workers[p] = [workers[p] EXCEPT !.state = "KILLED"]
          /\ Reloaded.proc[p] =
                IF workers[p].state # "KILLED" /\ Alive(proc[p])
                   /\ proc[p].sig # "kill"
                THEN [proc[p] EXCEPT !.sig = "term"]
                ELSE proc[p]
    /\ \A p \in DOMAIN proc \ Pool : Reloaded.proc[p] = proc[p]
    /\ [Reloaded EXCEPT !.rules = rules, !.workers = workers, !.proc = proc]
           = World

\* a reload has happened while one event was RUNNING and another QUEUED:
\* both are still in the queue, the worker is KILLED and has its SIGTERM
C16_Witness ==
    /\ ~rules /\ ~exit
    /\ \E e \in Queue : e.state = "QUEUED"
    /\ \E e \in Queue :
          /\ e.state = "RUNNING"
          /\ workers[e.worker].state = "KILLED"
          /\ proc[e.worker].sig = "term"

\* the states a stop-exec-queue message followed by a start-exec-queue
\* message can leave, applied to the current state
StopStart ==
    UNION { on_ctrl_msg(w, "START_EXEC_QUEUE", 0, NoEnv) :
              w \in on_ctrl_msg(World, "STOP_EXEC_QUEUE", 0, NoEnv) }

Seqnums(evs) == [i \in 1..Len(evs) |-> evs[i].seqnum]
States(evs) == [i \in 1..Len(evs) |-> evs[i].state]

\* C17 (as amended): stop-exec-queue followed by start-exec-queue, with no
\* uevent in between, adds and removes no event and frees no worker; an
\* event changes state only from QUEUED to RUNNING, by the dispatch scan of
\* the start-exec-queue; when no event is QUEUED the pair is a no-op on the
\* queue contents and on the pool.
C17_StopStart ==
    (loop = "running" /\ ctrl_event) =>
        \A w \in StopStart :
            /\ Seqnums(w.events) = Seqnums(events)
            /\ \A i \in 1..Len(events) :
                  \/ w.events[i].state = events[i].state
                  \/ events[i].state = "QUEUED" /\ w.events[i].state = "RUNNING"
            /\ Pool \subseteq DOMAIN w.workers
            /\ (\A e \in Queue : e.state # "QUEUED") =>
                  States(w.events) = States(events) /\ DOMAIN w.workers = Pool

\* C17 as stated: the pair is a no-op on the queue contents and on the pool
\* size in every state.
C17_AsStated ==
    (loop = "running" /\ ctrl_event) =>
        \A w \in StopStart :
            /\ Seqnums(w.events) = Seqnums(events)
            /\ States(w.events) = States(events)
            /\ Cardinality(DOMAIN w.workers) = Cardinality(Pool)

\* the pair changes nothing where one event is RUNNING and a later one is
\* QUEUED behind it, the queue not being stopped
C17_Witness ==
    /\ loop = "running" /\ ctrl_event /\ ~stop_exec_queue
    /\ \E e \in Queue : e.state = "RUNNING"
    /\ \E e \in Queue : e.state = "QUEUED" /\ is_devpath_busy(events, e).busy
    /\ \A w \in StopStart :
          States(w.events) = States(events) /\ DOMAIN w.workers = Pool

\* a step that takes the first message out of the control socket
CtrlDispatched == ctrl_in # << >> /\ ctrl_in' = Tail(ctrl_in)

\* C18: on_ctrl_msg is dispatched only when the loop found no uevent,
\* inotify, worker-reply or signal source ready, so a control message is
\* handled only after on_uevent has read every uevent that was received
\* before it (and inserted it, unless the allocation of the event failed).
C18_CtrlLast ==
    [][CtrlDispatched =>
          /\ pending = { "ctrl" }
          /\ seqnum >= Head(ctrl_in).received]_vars

\* the loop has found a ping and a uevent that came before it ready at the
\* same poll
C18_Witness ==
    /\ pending = { "uevent", "ctrl" }
    /\ Head(ctrl_in).type = "PING"
    /\ Head(ctrl_in).received > seqnum

\* the well-formed set-env strings
KeyValue == { str \in EnvStrings : strchr(str) # 0 }

\* C19: a set-env 'key=value' with a non-empty value leaves key mapped to
\* that value, a set-env 'key=' leaves the map without the key, and both
\* leave every worker KILLED.
C19_SetEnv ==
    (loop = "running" /\ ctrl_event) =>
        \A str \in KeyValue :
            LET w == set_env(World, str, "none")
                key == env_key(str)
            IN  /\ env_value(str) # << >> =>
                      /\ key \in DOMAIN w.properties
                      /\ w.properties[key] = { env_value(str) }
                /\ env_value(str) = << >> => key \notin DOMAIN w.properties
                /\ \A p \in DOMAIN w.workers : w.workers[p].state = "KILLED"

\* C20: a set-env in which an allocation fails returns with the manager as
\* it was: the property overrides are exactly those before the message, an
\* entry the key had is still there with its value.
C20_Oom ==
    (loop = "running" /\ ctrl_event) =>
        \A str \in EnvStrings : \A oom \in env_allocations(World, str) :
            set_env(World, str, oom) = World

\* two events for the same disk: the same devpath, the same non-zero devnum,
\* both of a block device
SameDisk(e1, e2) ==
    /\ e1.devpath = e2.devpath
    /\ major(e1.devnum) # 0 /\ e1.devnum = e2.devnum
    /\ e1.is_block /\ e2.is_block

\* the event e1 holds back the later event e2
Holds(e1, e2) ==
    /\ e1.seqnum < e2.seqnum
    /\ Related(e1, e2) \/ e2.devpath_old = e1.devpath

\* e1 is the only event of the queue that holds back e2
OnlyHolder(e1, e2) ==
    /\ Holds(e1, e2)
    /\ \A e \in Queue : Holds(e, e2) => e.seqnum = e1.seqnum

\* the step takes the event e out of the queue
Freed(e) == \A e2 \in QueueAfter : e2.seqnum # e.seqnum

\* the event with the seqnum of e is RUNNING after the step, its two timers
\* armed
Started(e) ==
    \E e2 \in QueueAfter :
        /\ e2.seqnum = e.seqnum
        /\ e2.state = "RUNNING" /\ Timers(e2) = { "armed" }

\* after the step the pool is at the cap and none of its workers is IDLE
NoWorkerLeft ==
    /\ Cardinality(Pool') >= children_max'
    /\ \A p \in Pool' : workers'[p].state # "IDLE"

Renamed(e1, e2) == e1.seqnum < e2.seqnum /\ e2.devpath_old = e1.devpath

ThreeIndependent ==
    /\ Len(events) = 3
    /\ \A i \in 1..3 : events[i].seqnum = i
    /\ \A e1 \in Queue, e2 \in Queue : ~Holds(e1, e2)
    /\ \A e \in Queue : e.devnum = NoDev /\ e.ifindex = 0

\* C23: with children_max = 2 and the first three events the manager
\* receives in the queue, all independent,
\* two workers have been forked, the first two events run and the third is
\* QUEUED; the step in which the third one starts forks no child when no
\* worker is reaped in it: the event goes to a worker of the pool that was
\* RUNNING and has reported.
C23_ThirdWaits ==
    /\ [](ThreeIndependent /\ children_max = 2 =>
             /\ Cardinality(DOMAIN proc) = 2 /\ Cardinality(Pool) = 2
             /\ events[1].state = "RUNNING" /\ events[2].state = "RUNNING"
             /\ events[3].state = "QUEUED")
    /\ [][ThreeIndependent /\ children_max = 2 /\ Pool \subseteq Pool'
             /\ (\E e \in QueueAfter : e.seqnum = 3 /\ e.state = "RUNNING") =>
                 /\ DOMAIN proc' = DOMAIN proc
                 /\ \E e \in QueueAfter :
                       /\ e.seqnum = 3 /\ e.worker \in Pool
                       /\ workers[e.worker].state = "RUNNING"
                       /\ \E k \in 1..Len(sock) : sock[k].pid = e.worker]_vars

\* three independent events are in the queue, the third one waits and the
\* worker of the first one has sent its completion message
C23_Witness ==
    /\ ThreeIndependent /\ children_max = 2
    /\ events[3].state = "QUEUED"
    /\ sock = << worker_message(events[1].worker) >>
    /\ \A p \in DOMAIN proc : Alive(proc[p])

\* the children that were forked and have not been reaped
Unreaped == { p \in DOMAIN proc : proc[p].pc # "reaped" }

\* C24: a worker is in the pool exactly when its child process has been
\* forked and not yet reaped.
C24_PoolIffLive == Pool = Unreaped

\* the workers a soft termination reaches: not KILLED yet, the process
\* alive and not about to die of SIGKILL
Reachable(p) ==
    /\ workers[p].state # "KILLED"
    /\ Alive(proc[p]) /\ proc[p].sig # "kill"

Dropped ==
    StrayDatagrams \cup { worker_message(p) : p \in DOMAIN proc \ Pool }

\* the datagram is a completion message of a worker of the pool
FromPool(d) == d \in { worker_message(p) : p \in Pool }

\* C26: a datagram of a wrong size, without credentials or with a pid <= 0,
\* and a well-formed one from a pid that is not in the pool, change nothing;
\* on_worker goes on reading after it (the source stays open): the step
\* that reads the socket empties it and frees the event of every worker
\* whose completion message was in it.
C26_Dropped ==
    /\ [](loop = "running" =>
             \A d \in Dropped : on_worker_datagram(World, d) = World)
    /\ [][sock # << >> /\ Len(sock') < Len(sock) =>
             /\ sock' = << >>
             /\ \A k \in 1..Len(sock) :
                   FromPool(sock[k]) =>
                       \A e \in QueueAfter :
                           e.seqnum = workers[sock[k].pid].event =>
                               e.seqnum = 0]_vars

\* a datagram of a wrong size that names a RUNNING worker is in the socket,
\* and behind it the completion message of that worker
C26_Witness ==
    /\ Len(sock) = 2
    /\ sock[1] \in StrayDatagrams /\ sock[1].size # MessageSize
    /\ sock[1].pid = sock[2].pid
    /\ FromPool(sock[2]) /\ workers[sock[2].pid].state = "RUNNING"

\* the worker has taken the step for the device it handles
Took(step) == step \in Range(wk.trace)

\* how often it has taken the step
Times(step) == Cardinality({ i \in 1..Len(wk.trace) : wk.trace[i] = step })

\* the device is one the worker locks: not removed, a block device that is
\* not a dm-, md or drbd device
Lockable == wk.dev.action # "remove" /\ shall_lock_device(wk.dev)

\* the rules are being applied, or have been and their programs are to run
Applying == wk.pc = "run" \/ (wk.pc = "unlock" /\ Took("run"))

\* C27 (as amended): when flock fails the worker applies no rules and runs
\* no programs for the device and sends one completion message; it sends
\* exactly one for every device it is done with and none before; and it
\* applies the rules to a lockable device whose node (the parent's node,
\* for a partition) it could open only while it holds the shared lock, no
\* other process holding an exclusive one.
C27_Lock ==
    /\ Took("skip") =>
          /\ ~Took("rules") /\ ~Took("run") /\ ~Took("publish")
          /\ wk.pc \in { "reply", "wait", "exit" }
          /\ wk.pc \in { "wait", "exit" } => Times("reply") = 1
    /\ wk.pc = "wait" => Times("reply") = 1
    /\ wk.pc \notin { "wait", "exit" } => Times("reply") = 0
    /\ Lockable /\ Applying /\ wk.opened = "ok" =>
          wk.fd_lock = "held" /\ ~wk.exclusive

\* C27 as stated: the rules are applied to a lockable device only while the
\* worker holds the shared lock.
C27_AsStated == Lockable /\ Applying => wk.fd_lock = "held"

\* flock has failed for a lockable device and the worker has sent its
\* completion message without applying the rules
C27_Witness ==
    /\ Lockable /\ wk.pc = "wait"
    /\ wk.trace = << "skip", "reply" >>

\* C28 (as amended): for a device handled with the lock held the steps are,
\* in this order: take the lock, apply the rules, run the programs, release
\* the lock, publish the device on the monitor, send the completion
\* message.
C28_Order ==
    Took("lock") =>
        \E n \in 1..6 :
            wk.trace = SubSeq(<< "lock", "rules", "run", "unlock", "publish",
                                 "reply" >>, 1, n)

\* C28 as stated: the lock is released after the device is published and
\* the completion message is sent.
C28_AsStated ==
    Took("lock") =>
        \E n \in 1..6 :
            wk.trace = SubSeq(<< "lock", "rules", "run", "publish", "reply",
                                 "unlock" >>, 1, n)

\* a device has been handled with the lock held, through all its steps
C28_Witness ==
    /\ wk.pc = "wait" /\ Took("lock") /\ Len(wk.trace) = 6
    /\ wk.fd_lock = "none"

\* the manager's state, and the state of its workers and sockets
ManagerState == [World EXCEPT !.ctrl_last = NoMsg]

\* nothing the handler calls can fail in this run
NothingFails == faults = { "crash" }

Defaulted == host.pc = "set"

\* physical memory in units of 128 MiB
MemLimit == host.mem_mib \div 128

\* C30 (as amended): the default is max(10, min(8 + 8 * nCPUs, memory /
\* 128 MiB)): at least 10 whatever the memory, so 10 with less than
\* 10 * 128 MiB, and otherwise the smaller of 8 + 8 * nCPUs and the memory
\* in units of 128 MiB; without an affinity mask it is 10.
C30_Default ==
    [][children_max = 0 /\ Defaulted' =>
          /\ children_max' >= 10
          /\ MemLimit' < 10 => children_max' = 10
          /\ ~host'.affinity => children_max' = 10
          /\ MemLimit' >= 10 /\ host'.affinity =>
                /\ children_max' <= 8 + 8 * host'.ncpu
                /\ children_max' <= MemLimit'
                /\ children_max' \in { 8 + 8 * host'.ncpu, MemLimit' }]_vars

\* C30 as stated: the default is min(max(10, 8 + 8 * nCPUs), memory /
\* 128 MiB), also with less than 10 * 128 MiB.
C30_AsStated ==
    [][children_max = 0 /\ Defaulted' /\ host'.affinity =>
          /\ children_max' <= MemLimit'
          /\ children_max' <= MAX(10, 8 + 8 * host'.ncpu)
          /\ children_max' \in { MAX(10, 8 + 8 * host'.ncpu), MemLimit' }]_vars

\* the default has been computed on a machine with less than 10 * 128 MiB
C30_Witness ==
    /\ Defaulted /\ host.affinity /\ MemLimit < 10 /\ MemLimit > 0
    /\ children_max = 10

\* how many of the descriptors handed in are of the kind
Passed(kind) ==
    Cardinality({ i \in 1..Len(listen.fds) : listen.fds[i] = kind })

\* listen_fds has returned
Listened == listen.pc \in { "run", "exit" }

\* C31 (as amended): listen_fds fails, and main exits, exactly when a
\* descriptor is neither an AF_LOCAL/SOCK_SEQPACKET nor an
\* AF_NETLINK/SOCK_RAW socket or one of the two kinds is passed twice; with
\* none passed, or only one of the two, it succeeds and returns -1 for the
\* missing socket, and otherwise the descriptor of each kind.
C31_ListenFds ==
    Listened =>
        /\ listen.pc = "exit" <=>
              \/ Passed("seqpacket") > 1 \/ Passed("netlink") > 1
              \/ Passed("stream") > 0 \/ Passed("file") > 0
        /\ listen.pc = "exit" <=> listen.r < 0
        /\ listen.pc = "run" =>
              /\ listen.fd_ctrl >= 0 <=> Passed("seqpacket") = 1
              /\ listen.fd_uevent >= 0 <=> Passed("netlink") = 1
              /\ listen.fd_ctrl >= 0 =>
                    listen.fds[listen.fd_ctrl - SD_LISTEN_FDS_START + 1]
                        = "seqpacket"
              /\ listen.fd_uevent >= 0 =>
                    listen.fds[listen.fd_uevent - SD_LISTEN_FDS_START + 1]
                        = "netlink"

\* C31 as stated: listen_fds succeeds only with exactly one socket of each
\* of the two kinds.
C31_AsStated ==
    Listened /\ listen.pc = "run" =>
        Passed("seqpacket") = 1 /\ Passed("netlink") = 1

\* listen_fds has succeeded on a lone netlink socket
C31_Witness ==
    /\ listen.pc = "run" /\ listen.fds = << "netlink" >>
    /\ listen.fd_ctrl = -1 /\ listen.fd_uevent = SD_LISTEN_FDS_START

\* the same device node, the same network interface
ByNode(l, e) == SameNode(l, e) \/ SameInterface(l, e)

\* the old name of e, the path of e while e has neither devnum nor ifindex,
\* a parent or a child of e
ByPath(l, e) ==
    \/ e.devpath_old # NoPath /\ l.devpath = e.devpath_old
    \/ l.devpath = e.devpath /\ major(e.devnum) = 0 /\ e.ifindex <= 0
    \/ Ancestor(l.devpath, e.devpath)
    \/ Ancestor(e.devpath, l.devpath)

\* e with its cache emptied
Rescan(e) == [e EXCEPT !.delaying_seqnum = 0]

\* the earlier events that the cache of e does not skip
Scanned(e) ==
    { l \in Queue : l.seqnum < e.seqnum /\ l.seqnum > e.delaying_seqnum }

\* the cached blocker of e is in the queue
CachedBlocker(e) == \E l \in Queue : l.seqnum = e.delaying_seqnum

\* the first event that blocks e among those scanned
FirstBlocker(e) ==
    CHOOSE l \in Scanned(e) :
        /\ ByNode(l, e) \/ ByPath(l, e)
        /\ \A k \in Scanned(e) :
              k.seqnum < l.seqnum => ~(ByNode(k, e) \/ ByPath(k, e))

\* C32: is_devpath_busy(e) is true iff the cached blocker of e is queued or
\* an earlier event that the cache does not skip has the device node, the
\* interface, the old name, the path (e having neither devnum nor ifindex)
\* or a parent or child path of e; paths that share a prefix not ending at
\* a '/' do not block; delaying_seqnum changes only to the first blocker,
\* and only when that one blocks by a path and not by node or interface.
\* This holds of every queued event as it is and with its cache emptied.
C32_BusyPredicate ==
    \A q \in Queue : \A e \in { q, Rescan(q) } :
        LET r == is_devpath_busy(events, e)
            blocked == \E l \in Scanned(e) : ByNode(l, e) \/ ByPath(l, e)
        IN  /\ r.busy <=> (CachedBlocker(e) \/ blocked)
            /\ r.delaying_seqnum # e.delaying_seqnum <=>
                  /\ ~CachedBlocker(e) /\ blocked
                  /\ ~ByNode(FirstBlocker(e), e)
                  /\ r.delaying_seqnum = FirstBlocker(e).seqnum

\* the disk, its partition and a device whose name starts with the disk's
\* are queued: the partition waits for the disk, the other device runs
C32_Witness ==
    /\ Len(events) = 3
    /\ events[1].devpath = << "/", "a" >>
    /\ \E i \in 2..3 :
          /\ events[i].devpath = << "/", "a", "/", "b" >>
          /\ events[i].state = "QUEUED" /\ events[i].delaying_seqnum = 1
          /\ is_devpath_busy(events, events[i]).busy
    /\ \E i \in 2..3 :
          /\ events[i].devpath = << "/", "a", "1" >>
          /\ ~is_devpath_busy(events, events[i]).busy

\* C35: is_devpath_busy(e) with the cached delaying_seqnum of e and with
\* delaying_seqnum 0 return the same boolean, in every reachable state.
C35_CacheTransparent ==
    \A e \in Queue :
        is_devpath_busy(events, e).busy
            <=> is_devpath_busy(events, Rescan(e)).busy

\* the cache of an event names a blocker that is gone while an event
\* earlier than that blocker is still queued, and the event is not busy
C35_Witness ==
    \E e \in Queue :
        /\ e.delaying_seqnum # 0 /\ ~CachedBlocker(e)
        /\ \E l \in Queue : l.seqnum < e.delaying_seqnum
        /\ ~is_devpath_busy(events, e).busy

\* the head of the queue
Head1 == events[1]

NumberedHeadNotBusy ==
    scan.done /\ Head1.delaying_seqnum < Head1.seqnum => ~scan.busy

\* the workers of world w in the given state
InState(w, st) == { p \in DOMAIN w.workers : w.workers[p].state = st }

\* event_run has left worker p of the pool as it was, and sent it nothing
Untouched(w1, p) ==
    /\ w1.workers[p] = workers[p]
    /\ w1.proc[p] = proc[p]

\* event_run has hard-killed the IDLE worker p
HardKilled(w1, p) ==
    /\ workers[p].state = "IDLE" /\ w1.workers[p].state = "KILLED"
    /\ w1.proc[p].inbox = proc[p].inbox
    /\ Alive(proc[p]) => w1.proc[p].sig = "kill"

\* what event_run may make of the event at index i, in the world w1
EventRunOutcome(w1, i) ==
    LET e == w1.events[i]
        p == e.worker
    IN  /\ Pool \subseteq DOMAIN w1.workers
        /\ \A q \in Pool \ {p} : Untouched(w1, q) \/ HardKilled(w1, q)
        /\ \A q \in InState(World, "RUNNING") \cup InState(World, "KILLED") :
              Untouched(w1, q)
        /\ \/ \* an IDLE worker has taken it
              /\ e.state = "RUNNING" /\ p \in InState(World, "IDLE")
              /\ DOMAIN w1.workers = Pool
              /\ w1.workers[p] = [event |-> e.seqnum, state |-> "RUNNING"]
              /\ w1.proc[p].inbox
           \/ \* a new worker has been forked for it
              /\ e.state = "RUNNING" /\ p \notin Pool
              /\ Cardinality(Pool) < children_max
              /\ DOMAIN w1.workers = Pool \cup {p}
              /\ w1.workers[p] = [event |-> e.seqnum, state |-> "RUNNING"]
              /\ InState(w1, "IDLE") = {}
           \/ \* it waits: the pool is full, or no child could be made
              /\ e.state = "QUEUED" /\ p = 0
              /\ DOMAIN w1.workers = Pool
              /\ InState(w1, "IDLE") = {}

\* C33: event_run on a QUEUED event attaches it to an IDLE worker that
\* accepts the device, hard-kills and marks KILLED every IDLE worker that
\* does not, forks a worker for it only when no IDLE worker accepted and
\* the pool, KILLED workers included, is below children_max, and otherwise
\* (also when fork fails) leaves it QUEUED without a worker and the pool
\* with the same members; RUNNING and KILLED workers are sent nothing.
C33_EventRun ==
    \A i \in 1..Len(events) :
        events[i].state = "QUEUED" =>
            \A w1 \in event_run(World, i) : EventRunOutcome(w1, i)

\* a worker that did not accept a device has been hard-killed, and the
\* event is RUNNING on the other worker of the pool
C33_Witness ==
    \E p \in Pool, q \in Pool :
        /\ workers[p].state = "KILLED" /\ proc[p].sig = "kill"
        /\ workers[q].state = "RUNNING" /\ proc[q].inbox
        /\ Cardinality(Pool) = children_max

\* C34: the references between events and workers agree in every state:
\* the worker of an event is in the pool and has that event, the event of
\* a worker is in the queue and has that worker; an event has a worker
\* exactly while it is RUNNING, an IDLE worker has no event (so the
\* assertions of worker_attach_event hold when event_run attaches), and an
\* event whose timers are armed has a worker (the assertion of
\* on_event_timeout).
C34_BackReferences ==
    /\ \A e \in Queue :
          /\ e.worker # 0 =>
                e.worker \in Pool /\ workers[e.worker].event = e.seqnum
          /\ e.state = "QUEUED" <=> e.worker = 0
          /\ e.timeout = "armed" \/ e.timeout_warning = "armed" => e.worker # 0
    /\ \A p \in Pool :
          /\ workers[p].event # 0 =>
                \E e \in Queue : e.seqnum = workers[p].event /\ e.worker = p
          /\ workers[p].state = "IDLE" => workers[p].event = 0
    /\ \A i \in 1..Len(events), j \in 1..Len(events) :
          i # j => events[i].seqnum # events[j].seqnum

\* two events are RUNNING, each on its own worker
C34_Witness ==
    \E e1 \in Queue, e2 \in Queue :
        /\ e1.seqnum # e2.seqnum /\ e1.worker # e2.worker
        /\ e1.state = "RUNNING" /\ e2.state = "RUNNING"
        /\ workers[e1.worker].event = e1.seqnum
        /\ workers[e2.worker].event = e2.seqnum

\* C39: while the idle-kill timer is enabled no event is RUNNING:
\* event_queue_start disables the timer before it dispatches and on_post
\* enables it only with an empty queue; this is so as well when events
\* arrive while stop_exec_queue is set.
C39_IdleTimer ==
    kill_workers_event => \A e \in Queue : e.state = "QUEUED"

\* an event has arrived while the queue is stopped and the idle-kill timer
\* is enabled, with a worker in the pool
C39_Witness ==
    /\ kill_workers_event /\ stop_exec_queue
    /\ events # << >> /\ Pool # {}

\* the event with seqnum s after the step, if it is still in the queue
After(s) == { e \in QueueAfter : e.seqnum = s }

\* C40: a RUNNING event stays RUNNING on the same worker for as long as it
\* is in the queue, through reload, set-env, the kill on timeout and
\* manager_exit as well, and an event that has left the queue does not
\* come back: it is never re-queued or dispatched a second time.
C40_NeverRequeued ==
    [][/\ \A e \in Queue : \A f \in After(e.seqnum) :
             e.state = "RUNNING" => f.state = "RUNNING" /\ f.worker = e.worker
       /\ \A s \in 1..seqnum :
             (\A e \in Queue : e.seqnum # s) => After(s) = {}]_vars

\* an event is RUNNING on a worker that has been marked KILLED and sent
\* SIGTERM
C40_Witness ==
    \E e \in Queue :
        /\ e.state = "RUNNING" /\ e.worker \in Pool
        /\ workers[e.worker].state = "KILLED"
        /\ proc[e.worker].sig = "term"

\* the event with seqnum s is in the queue in the state st
Waits(s, st) ==
    \E i \in 1..Len(events) : events[i].seqnum = s /\ events[i].state = st

\* C36: with the replies, exits and reaping fair, no fork or rule load
\* failing, and stop_exec_queue and exit false for the whole run, if
\* children_max is at least 1 from some time on (a set-children-max message
\* may have raised it) then every event put in the queue is RUNNING at some
\* later time. An event stays QUEUED until it is RUNNING, so this is: an
\* event that is QUEUED while children_max is at least 1 is RUNNING at some
\* later time, unless children_max is 0 again at some later time.
C36_Dispatched ==
    \A s \in 1..MaxEvents :
        (Waits(s, "QUEUED") /\ children_max >= 1)
            ~> (Waits(s, "RUNNING") \/ children_max = 0)

\* stop_exec_queue and exit are false for the whole of a run of SpecLive
NeverStopped == ~stop_exec_queue /\ ~exit

\* in the runs where children_max is never 0, every event that is QUEUED is
\* RUNNING at some later time
DispatchedWhileCapPositive ==
    [](children_max >= 1) =>
        \A s \in 1..MaxEvents : Waits(s, "QUEUED") ~> Waits(s, "RUNNING")

\* the worker of the event with seqnum s has sent its completion message
\* for it, and the supervisor has not read the message yet
Completed(s) ==
    \E p \in Pool :
        /\ workers[p].event = s
        /\ \E k \in 1..Len(sock) : sock[k].pid = p

\* C38: failure replay and completion exclude each other: no step sends the
\* kernel's clone of a device on the main monitor, or deletes its database
\* entry, for an event whose worker has sent its completion message, in
\* whatever order the worker's reply and SIGCHLD are handled.
C38_ReplayOrCompletion ==
    [][/\ \A m \in monitor_out' : ~Completed(m.seqnum)
       /\ \A s \in db_deleted' : ~Completed(s)]_vars

====
